---- MODULE Spec2Model ----
(***************************************************************************)
(* Model of the image ingestion pipeline of the portfolio backend:         *)
(* file validation, staging on local disk, the remote (Cloudinary) and     *)
(* local asset stores, batch processing and the HTTP upload routes.        *)
(*                                                                         *)
(* Conventions                                                             *)
(*  - a file object is a record [originalname, path, mimetype, size,       *)
(*    storeOk]; path = NoPath models a file object without a staged path   *)
(*    (memory storage); storeOk is the environment's answer for this file  *)
(*    (the remote upload call, or sharp's toFile for the local store);     *)
(*  - disk is the set of paths that exist on the local file system;        *)
(*    fs.unlink of an existing path removes it, fs.unlink of a missing     *)
(*    path throws ENOENT (every call site catches it);                     *)
(*  - a violation is a record whose kind names the error message pushed    *)
(*    and whose maxMB is the limit that the message text declares.         *)
(***************************************************************************)
EXTENDS Integers, Sequences, FiniteSets, TLC

VARIABLES
  db,        \* the collections of the database
  clock,     \* the time that Date.now() reads
  disk,      \* paths of the files present on the local disk
  outbound,  \* sequence of the upload calls made to the remote service
  pc,        \* position of the operation under way
  remote,    \* public ids of the assets held by the remote service
  req,       \* the input of the operation (file, batch or HTTP request)
  res        \* the result or HTTP response of the operation

vars == <<db, clock, disk, outbound, pc, remote, req, res>>

----------------------------------------------------------------------------
(* Bounds of the model *)

\* largest number of files in one batch or request
MaxFiles == 3

\* largest number of put calls in one behaviour of SpecPut
MaxCalls == 3

\* largest number of characters of an original filename
MaxLen == 3

\* largest number of base-36 digits in the fraction of a Math.random() value
MaxDigits == 7

\* number of requests that are served concurrently
MaxReqs == 2

\* number of distinct email addresses
MaxUsers == 2

\* last reading of the clock
MaxTime == 3

\* largest number of failed logins counted before new logins stop
MaxCount == 6

\* the lock time (2 hours in the code), in ticks of the clock
lockTime == 2

\* number of projects that can be created
MaxProjects == 1

\* latest date of a project (dates are 1 .. MaxDate, 0 is an absent date)
MaxDate == 3

\* size of one listing page of the remote service (max_results: 500 in the
\* source, scaled down so that a folder can exceed it)
max_results == 2

----------------------------------------------------------------------------
(* Values *)

MiB == 1024 * 1024
\* paths and names are pairs <<class, index>>
NoPath == <<"undefined", 0>>
StagedPath(i) == <<"staged", i>>
ImagePath(i) == <<"image", i>>
ThumbnailPath(i) == <<"thumbnail", i>>
OriginalName(i) == <<"original", i>>
NoFile == [absent |-> TRUE]
\* the JavaScript value undefined as a mimetype and as a size of a file object
Undefined == "undefined"
UndefinedSize == -1
None == [none |-> TRUE]

\* MIME types the inputs are drawn from
MimeUniverse ==
  {"image/jpeg", "image/jpg", "image/png", "image/webp", "image/gif",
   "IMAGE/PNG", "image/bmp", "application/pdf"}

\* byte sizes the inputs are drawn from: both limits and their neighbours
SizeUniverse ==
  {1, 3 * MiB, 5 * MiB - 1, 5 * MiB, 5 * MiB + 1, 7 * MiB,
   10 * MiB - 1, 10 * MiB, 10 * MiB + 1, 12 * MiB}

\* String.prototype.toLowerCase on the MIME universe
toLowerCase(s) ==
  CASE s = "IMAGE/PNG" -> "image/png"
    [] OTHER -> s

\* String.prototype.startsWith('image/') on the MIME universe (case-sensitive)
startsWithImage(s) ==
  s \in {"image/jpeg", "image/jpg", "image/png", "image/webp", "image/gif",
         "image/bmp"}

allowedTypes == {"image/jpeg", "image/jpg", "image/png", "image/webp", "image/gif"}

UnsupportedMediaType == [kind |-> "UnsupportedMediaType", maxMB |-> 0]
NoFileProvided == [kind |-> "NoFileProvided", maxMB |-> 0]
PayloadTooLarge(mb) == [kind |-> "PayloadTooLarge", maxMB |-> mb]

Kinds(errors) == {errors[i].kind : i \in DOMAIN errors}

----------------------------------------------------------------------------
(* File Validator: middleware/upload.js (remote store, 10 MiB) *)

maxSize_upload == 10 * MiB

isValidImageType_upload(mimetype) == toLowerCase(mimetype) \in allowedTypes

\* undefined <= maxSize is false
isValidFileSize_upload(size) == size # UndefinedSize /\ size <= maxSize_upload

validateUploadedFile_upload(file) ==
  IF file = NoFile THEN <<NoFileProvided>>
  ELSE (IF ~isValidImageType_upload(file.mimetype)
          THEN <<UnsupportedMediaType>> ELSE <<>>)
       \o (IF ~isValidFileSize_upload(file.size)
             THEN <<PayloadTooLarge(10)>> ELSE <<>>)

(* File Validator: middleware/uploadImage.js (local store, 5 MiB) *)

maxSize_local == 5 * MiB

isValidImageType_local(mimetype) == toLowerCase(mimetype) \in allowedTypes

\* undefined <= maxSize is false
isValidFileSize_local(size) == size # UndefinedSize /\ size <= maxSize_local

validateUploadedFile_local(file) ==
  IF file = NoFile THEN <<NoFileProvided>>
  ELSE (IF ~isValidImageType_local(file.mimetype)
          THEN <<UnsupportedMediaType>> ELSE <<>>)
       \o (IF ~isValidFileSize_local(file.size)
             THEN <<PayloadTooLarge(5)>> ELSE <<>>)

(* File Validator: utils/uploadImage (second module of cloudinaryUtils.js) *)

maxSize_utils == 5 * MiB

isValidImageType_utils(mimetype) == mimetype \in allowedTypes

\* undefined <= maxSize is false
isValidFileSize_utils(size) == size # UndefinedSize /\ size <= maxSize_utils

validateUploadedFile_utils(file) ==
  IF file = NoFile THEN <<NoFileProvided>>
  ELSE (IF ~isValidImageType_utils(file.mimetype)
          THEN <<UnsupportedMediaType>> ELSE <<>>)
       \o (IF ~isValidFileSize_utils(file.size)
             THEN <<PayloadTooLarge(5)>> ELSE <<>>)

(* File Validator: utils/cloudinaryUtils.js (remote store).  The two     *)
(* predicates are the ones imported from ./uploadImage; the message of   *)
(* the size violation declares 10MB.                                     *)

isValidImageType_cu(mimetype) == isValidImageType_utils(mimetype)

isValidFileSize_cu(size) == isValidFileSize_utils(size)

validateUploadedFile_cu(file) ==
  IF file = NoFile THEN <<NoFileProvided>>
  ELSE (IF ~isValidImageType_cu(file.mimetype)
          THEN <<UnsupportedMediaType>> ELSE <<>>)
       \o (IF ~isValidFileSize_cu(file.size)
             THEN <<PayloadTooLarge(10)>> ELSE <<>>)

\* validateFiles of utils/cloudinaryUtils.js: one error list per file
validateFiles_cu(files) ==
  [i \in DOMAIN files |->
     IF files[i] = NoFile THEN <<NoFileProvided>>
     ELSE (IF ~isValidImageType_cu(files[i].mimetype)
             THEN <<UnsupportedMediaType>> ELSE <<>>)
          \o (IF ~isValidFileSize_cu(files[i].size)
                THEN <<PayloadTooLarge(10)>> ELSE <<>>)]

\* validateFiles of middleware/uploadImage.js: one error list per file
validateFiles_local(files) ==
  [i \in DOMAIN files |->
     IF files[i] = NoFile THEN <<NoFileProvided>>
     ELSE (IF ~isValidImageType_local(files[i].mimetype)
             THEN <<UnsupportedMediaType>> ELSE <<>>)
          \o (IF ~isValidFileSize_local(files[i].size)
                THEN <<PayloadTooLarge(5)>> ELSE <<>>)]

\* validateFiles on an argument that is not an array
validateFiles_notArray == <<(<<NoFileProvided>>)>>

\* mimetype.toLowerCase() on undefined raises a TypeError
toLowerCaseThrows(mimetype) == mimetype = Undefined

\* the validators whose isValidImageType calls mimetype.toLowerCase()
validateThrows(variant, file) ==
  /\ file # NoFile
  /\ variant \in {"upload", "local"}
  /\ toLowerCaseThrows(file.mimetype)

----------------------------------------------------------------------------
(* Local file system *)

\* fs.unlink / fs.unlinkSync: removes an existing path, throws on a missing one
unlink(d, path) == [disk |-> d \ {path}, threw |-> path \notin d]

----------------------------------------------------------------------------
(* Remote Asset Store: put.  answerOk is the remote service's answer to    *)
(* cloudinary.uploader.upload; the upload of a path that is not on disk    *)
(* is rejected by the client library whatever the service would answer.    *)
(* The result carries the disk after the call and the outbound calls made. *)

uploadRejects(d, filePath, answerOk) == filePath \notin d \/ ~answerOk

\* the assets that the calls of an operation left on the remote service:
\* an accepted upload is stored under the public id of the call
Stored(success, calls) ==
  IF success THEN {calls[k] : k \in DOMAIN calls} ELSE {}

\* middleware/upload.js
uploadToCloudinary_upload_noCleanupOnError(filePath, answerOk, d) ==
  IF uploadRejects(d, filePath, answerOk)
    THEN [success |-> FALSE, publicId |-> NoPath, disk |-> d,
          calls |-> <<filePath>>]
    ELSE [success |-> TRUE, publicId |-> filePath,
          disk |-> unlink(d, filePath).disk, calls |-> <<filePath>>]

uploadToCloudinary_upload(filePath, answerOk, d) ==
  IF uploadRejects(d, filePath, answerOk)
    THEN \* catch: unlink in its own try/catch, then the failure result
         [success |-> FALSE, publicId |-> NoPath,
          disk |-> unlink(d, filePath).disk, calls |-> <<filePath>>]
    ELSE \* upload resolved: unlink in its own try/catch, then the result
         [success |-> TRUE, publicId |-> filePath,
          disk |-> unlink(d, filePath).disk, calls |-> <<filePath>>]

\* server.js (disk staging variant)
uploadToCloudinary_server(filePath, answerOk, d) ==
  IF uploadRejects(d, filePath, answerOk)
    THEN [success |-> FALSE, publicId |-> NoPath,
          disk |-> unlink(d, filePath).disk, calls |-> <<filePath>>]
    ELSE [success |-> TRUE, publicId |-> filePath,
          disk |-> unlink(d, filePath).disk, calls |-> <<filePath>>]

\* utils/cloudinaryUtils.js
uploadToCloudinary_cu(filePath, answerOk, d) ==
  IF uploadRejects(d, filePath, answerOk)
    THEN [success |-> FALSE, publicId |-> NoPath,
          disk |-> unlink(d, filePath).disk, calls |-> <<filePath>>]
    ELSE [success |-> TRUE, publicId |-> filePath,
          disk |-> unlink(d, filePath).disk, calls |-> <<filePath>>]

----------------------------------------------------------------------------
(* Upload Orchestrator: batch processing.  Each operator is the body of    *)
(* one iteration of the for-loop over the files: it yields the result      *)
(* pushed for the file, the disk afterwards and the outbound calls made.   *)

Result(success, filename, errors, error) ==
  [success |-> success, filename |-> filename, errors |-> errors,
   error |-> error]

Iteration(result, d, calls) == [result |-> result, disk |-> d, calls |-> calls]

\* batchProcessImages of middleware/upload.js (remote store)
batchProcessImages_upload(file, d) ==
  IF file = NoFile
    THEN Iteration(Result(FALSE, <<"unknown", 0>>, <<>>, "Invalid file object"),
                   d, <<>>)
  ELSE IF file.path = NoPath
    THEN Iteration(Result(FALSE, file.originalname, <<>>, "Invalid file object"),
                   d, <<>>)
  ELSE IF validateUploadedFile_upload(file) # <<>>
    THEN Iteration(Result(FALSE, file.originalname,
                          validateUploadedFile_upload(file), "validation"),
                   d, <<>>)
  ELSE LET uploadResult == uploadToCloudinary_upload(file.path, file.storeOk, d)
       IN Iteration(Result(uploadResult.success, file.originalname, <<>>,
                           IF uploadResult.success THEN "" ELSE "Upload failed"),
                    uploadResult.disk, uploadResult.calls)

\* batchProcessImages of utils/cloudinaryUtils.js (remote store)
batchProcessImages_cu(file, d) ==
  IF file = NoFile
    THEN Iteration(Result(FALSE, <<"unknown", 0>>, <<>>, "Invalid file object"),
                   d, <<>>)
  ELSE IF file.path = NoPath
    THEN Iteration(Result(FALSE, file.originalname, <<>>, "Invalid file object"),
                   d, <<>>)
  ELSE IF validateUploadedFile_cu(file) # <<>>
    THEN Iteration(Result(FALSE, file.originalname,
                          validateUploadedFile_cu(file), "validation"),
                   d, <<>>)
  ELSE LET uploadResult == uploadToCloudinary_cu(file.path, file.storeOk, d)
       IN Iteration(Result(uploadResult.success, file.originalname, <<>>,
                           IF uploadResult.success THEN "" ELSE "Upload failed"),
                    uploadResult.disk, uploadResult.calls)

\* optimizeImage of middleware/uploadImage.js: sharp reads inputPath and
\* writes outputPath, then the input is unlinked; any exception gives false
optimizeImage_local(inputPath, outputPath, sharpOk, d) ==
  IF inputPath \in d /\ sharpOk
    THEN [ok |-> TRUE, disk |-> unlink(d \cup {outputPath}, inputPath).disk]
    ELSE [ok |-> FALSE, disk |-> d]

\* createThumbnail of middleware/uploadImage.js: errors are caught
createThumbnail_local(inputPath, thumbnailPath, sharpOk, d) ==
  IF inputPath \in d /\ sharpOk
    THEN [ok |-> TRUE, disk |-> d \cup {thumbnailPath}]
    ELSE [ok |-> FALSE, disk |-> d]

\* batchProcessImages of middleware/uploadImage.js (local store); i stands
\* for the unique name that generateUniqueFilename yields in this iteration
batchProcessImages_local(i, file, thumbOk, d) ==
  LET optimized == optimizeImage_local(file.path, ImagePath(i), file.storeOk, d)
      thumb == createThumbnail_local(ImagePath(i), ThumbnailPath(i), thumbOk,
                                     optimized.disk)
  IN IF optimized.ok
       THEN Iteration(Result(TRUE, ImagePath(i), <<>>, ""), thumb.disk, <<>>)
       ELSE Iteration(Result(FALSE, file.originalname, <<>>,
                             "Optimization failed"),
                      optimized.disk, <<>>)

\* batchProcessImages of utils/uploadImage (local store, no transformation)
batchProcessImages_utils(file, d) ==
  IF validateUploadedFile_utils(file) # <<>>
    THEN Iteration(Result(FALSE, file.originalname,
                          validateUploadedFile_utils(file), "validation"),
                   d, <<>>)
    ELSE Iteration(Result(TRUE, file.originalname, <<>>, ""), d, <<>>)

\* uploadProjectImages of controller/projectController.js: one iteration of
\* its loop; a rejected file goes to the errors list, an accepted one to
\* uploadResults (filename is the stored name multer gave the file)
uploadProjectImages_iteration(file, uploadResults, errors) ==
  IF validateUploadedFile_utils(file) # <<>>
    THEN [uploadResults |-> uploadResults,
          errors |-> Append(errors,
                            [filename |-> file.originalname,
                             errors |-> validateUploadedFile_utils(file)])]
    ELSE [uploadResults |-> Append(uploadResults,
                                   [filename |-> file.path,
                                    originalName |-> file.originalname,
                                    size |-> file.size]),
          errors |-> errors]

Response(status, success, data, count, errors) ==
  [status |-> status, success |-> success, data |-> data, count |-> count,
   errors |-> errors]

\* uploadProjectImages: the response once the loop is over
uploadProjectImages_respond_always200(uploadResults, errors) ==
  Response(200, TRUE, uploadResults, Len(uploadResults), errors)

uploadProjectImages_respond(uploadResults, errors) ==
  IF Len(uploadResults) = 0
    THEN Response(400, FALSE, <<>>, 0, errors)
    ELSE Response(200, TRUE, uploadResults, Len(uploadResults), errors)

\* uploadProjectImages: the early return on a request without files
uploadProjectImages_noFiles == Response(400, FALSE, <<>>, 0, <<>>)

----------------------------------------------------------------------------
(* HTTP upload routes of routes/projectroutes.js and of the router with    *)
(* the validateUploadedFiles middleware (unnamed/part_003).                *)

\* multer with disk storage, fileFilter = isValidImageType and
\* limits.fileSize = 10 MiB: the files are taken in request order, the
\* filter is asked before the bytes of a file are read; on an error multer
\* removes what it has written and passes the error on
multer_routes(files, d) ==
  LET bad == {i \in DOMAIN files :
                \/ ~isValidImageType_utils(files[i].mimetype)
                \/ files[i].size > 10 * MiB}
      first == CHOOSE i \in bad : \A j \in bad : i <= j
  IN IF bad = {}
       THEN [error |-> "", disk |-> d \cup {files[i].path : i \in DOMAIN files}]
     ELSE IF ~isValidImageType_utils(files[first].mimetype)
       THEN [error |-> "fileFilter", disk |-> d]
     ELSE [error |-> "LIMIT_FILE_SIZE", disk |-> d]

\* handleUploadError: every multer error is answered with status 400
handleUploadError(error) ==
  Response(400, FALSE, <<>>, 0,
           IF error = "LIMIT_FILE_SIZE" THEN <<PayloadTooLarge(10)>>
           ELSE <<UnsupportedMediaType>>)

\* validateUploadedFiles (unnamed/part_003): all files or none
validateUploadedFiles(files, d) ==
  IF Len(files) = 0
    THEN [next |-> FALSE, disk |-> d,
          response |-> Response(400, FALSE, <<>>, 0, <<NoFileProvided>>)]
  ELSE IF \E i \in DOMAIN files : validateFiles_cu(files)[i] # <<>>
    THEN [next |-> FALSE,
          disk |-> d \ {files[i].path : i \in DOMAIN files},
          response |-> Response(400, FALSE, <<>>, 0, validateFiles_cu(files))]
  ELSE [next |-> TRUE, disk |-> d, response |-> None]

\* uploadImage of controller/projectController.js; file is req.file
uploadImage(file) ==
  IF validateUploadedFile_utils(file) # <<>>
    THEN Response(400, FALSE, <<>>, 0, validateUploadedFile_utils(file))
    ELSE Response(200, TRUE,
                  <<[filename |-> file.path, originalName |-> file.originalname,
                     size |-> file.size]>>, 1, <<>>)

\* what the handlers read of req.body and of the database
GoodBody ==
  [fields |-> TRUE, technologies |-> 1, startDate |-> 1, endDate |-> 2,
   exists |-> TRUE, dbOk |-> TRUE]

Bodies ==
  {GoodBody,
   [GoodBody EXCEPT !.fields = FALSE],
   [GoodBody EXCEPT !.technologies = 0],
   [GoodBody EXCEPT !.startDate = 2, !.endDate = 1],
   [GoodBody EXCEPT !.startDate = 0],
   [GoodBody EXCEPT !.exists = FALSE],
   [GoodBody EXCEPT !.dbOk = FALSE]}

Message(message) == [kind |-> message, maxMB |-> 0]

\* createProject of controller/projectController.js (date 0 is an absent date)
createProject(body) ==
  IF ~body.fields \/ body.startDate = 0 \/ body.endDate = 0
    THEN Response(400, FALSE, <<>>, 0, <<Message("Missing required fields")>>)
  ELSE IF body.technologies = 0
    THEN Response(400, FALSE, <<>>, 0, <<Message("technology required")>>)
  ELSE IF body.startDate >= body.endDate
    THEN Response(400, FALSE, <<>>, 0, <<Message("End date must be after start date")>>)
  ELSE IF ~body.dbOk
    THEN Response(500, FALSE, <<>>, 0, <<Message("Failed to create project")>>)
  ELSE Response(201, TRUE, <<>>, 0, <<>>)

\* updateProject of controller/projectController.js
updateProject(body) ==
  IF ~body.exists
    THEN Response(404, FALSE, <<>>, 0, <<Message("Project not found")>>)
  ELSE IF body.startDate # 0 /\ body.endDate # 0 /\ body.startDate >= body.endDate
    THEN Response(400, FALSE, <<>>, 0, <<Message("End date must be after start date")>>)
  ELSE IF ~body.dbOk
    THEN Response(500, FALSE, <<>>, 0, <<Message("Failed to update project")>>)
  ELSE Response(200, TRUE, <<>>, 0, <<>>)

----------------------------------------------------------------------------
(* The upload route of server.js, in its memory-storage and its            *)
(* disk-staging variant, and processUploadedFile of middleware/upload.js.  *)
(* Each operator yields the response or result, the disk afterwards and    *)
(* the outbound calls made.                                                *)

Outcome(response, d, calls) == [response |-> response, disk |-> d, calls |-> calls]

\* upload.single('image') of server.js: fileFilter = isValidImageType of
\* utils/uploadImage, limits.fileSize = 10 MiB; the memory storage keeps the
\* bytes in a buffer, the disk storage writes them to file.path
multer_server(file, storage, d) ==
  IF file = NoFile THEN [error |-> "", disk |-> d]
  ELSE IF ~isValidImageType_utils(file.mimetype)
    THEN [error |-> "fileFilter", disk |-> d]
  ELSE IF file.size > 10 * MiB
    THEN [error |-> "LIMIT_FILE_SIZE", disk |-> d]
  ELSE [error |-> "",
        disk |-> IF storage = "disk" THEN d \cup {file.path} ELSE d]

\* global error handler of server.js (memory-storage variant)
globalErrorHandler_memory(error) ==
  IF error = "LIMIT_FILE_SIZE"
    THEN Response(400, FALSE, <<>>, 0, <<PayloadTooLarge(10)>>)
    ELSE Response(500, FALSE, <<>>, 0, <<Message("Server error on Render")>>)

\* global error handler of server.js (disk-staging variant)
globalErrorHandler_disk(error) ==
  IF error = "LIMIT_FILE_SIZE"
    THEN Response(400, FALSE, <<>>, 0, <<PayloadTooLarge(10)>>)
    ELSE Response(500, FALSE, <<>>, 0, <<Message("Server error")>>)

UploadedData(file, publicId) ==
  <<[filename |-> publicId, originalName |-> file.originalname,
     size |-> file.size]>>

\* POST /api/projects/upload-image, memory-storage variant: the handler
uploadRoute_memory(file, answerOk, d) ==
  IF file = NoFile
    THEN Outcome(Response(400, FALSE, <<>>, 0, <<NoFileProvided>>), d, <<>>)
  ELSE IF ~isValidImageType_utils(file.mimetype)
    THEN Outcome(Response(400, FALSE, <<>>, 0, <<UnsupportedMediaType>>), d, <<>>)
  ELSE IF ~isValidFileSize_utils(file.size)
    THEN Outcome(Response(400, FALSE, <<>>, 0, <<PayloadTooLarge(10)>>), d, <<>>)
  ELSE IF answerOk
    THEN Outcome(Response(200, TRUE, UploadedData(file, file.originalname), 1, <<>>),
                 d, <<file.originalname>>)
  ELSE Outcome(Response(500, FALSE, <<>>, 0,
                        <<Message("Failed to upload image to Cloudinary")>>),
               d, <<file.originalname>>)

\* the catch block of the disk-staging handler: unlinkSync in its own
\* try/catch, then status 500
uploadRoute_disk_catch(file, d) ==
  Outcome(Response(500, FALSE, <<>>, 0,
                   <<Message("Internal server error during upload")>>),
          unlink(d, file.path).disk, <<>>)

\* POST /api/projects/upload-image, disk-staging variant: the handler
uploadRoute_disk(file, answerOk, d) ==
  IF file = NoFile
    THEN Outcome(Response(400, FALSE, <<>>, 0, <<NoFileProvided>>), d, <<>>)
  ELSE IF ~isValidImageType_utils(file.mimetype)
    THEN IF unlink(d, file.path).threw
           THEN uploadRoute_disk_catch(file, d)
           ELSE Outcome(Response(400, FALSE, <<>>, 0, <<UnsupportedMediaType>>),
                        unlink(d, file.path).disk, <<>>)
  ELSE IF ~isValidFileSize_utils(file.size)
    THEN IF unlink(d, file.path).threw
           THEN uploadRoute_disk_catch(file, d)
           ELSE Outcome(Response(400, FALSE, <<>>, 0, <<PayloadTooLarge(10)>>),
                        unlink(d, file.path).disk, <<>>)
  ELSE LET u == uploadToCloudinary_server(file.path, answerOk, d)
       IN IF u.success
            THEN Outcome(Response(200, TRUE, UploadedData(file, u.publicId), 1, <<>>),
                         u.disk, u.calls)
            ELSE Outcome(Response(500, FALSE, <<>>, 0,
                                  <<Message("Failed to upload image to Cloudinary")>>),
                         u.disk, u.calls)

\* processUploadedFile of middleware/upload.js
processUploadedFile_upload_uploadFirst(file, answerOk, d) ==
  IF file = NoFile THEN Outcome(None, d, <<>>)
  ELSE LET u == uploadToCloudinary_upload(file.path, answerOk, d)
       IN IF validateUploadedFile_upload(file) # <<>>
            THEN Outcome(Result(FALSE, file.originalname,
                                validateUploadedFile_upload(file), ""),
                         u.disk, u.calls)
            ELSE Outcome(Result(u.success, file.originalname, <<>>,
                                IF u.success THEN "" ELSE "Upload failed"),
                         u.disk, u.calls)

processUploadedFile_upload(file, answerOk, d) ==
  IF file = NoFile THEN Outcome(None, d, <<>>)
  ELSE IF validateUploadedFile_upload(file) # <<>>
    THEN Outcome(Result(FALSE, file.originalname,
                        validateUploadedFile_upload(file), ""),
                 d, <<>>)
  ELSE LET u == uploadToCloudinary_upload(file.path, answerOk, d)
       IN Outcome(Result(u.success, file.originalname, <<>>,
                         IF u.success THEN "" ELSE "Upload failed"),
                  u.disk, u.calls)

\* the maximum a validator declares in its too-large message, in MiB
declaredMaxMB(variant) ==
  CASE variant = "upload" -> 10
    [] variant = "local" -> 5
    [] variant = "utils" -> 5
    [] variant = "cu" -> 10

validateUploadedFile(variant, file) ==
  CASE variant = "upload" -> validateUploadedFile_upload(file)
    [] variant = "local" -> validateUploadedFile_local(file)
    [] variant = "utils" -> validateUploadedFile_utils(file)
    [] variant = "cu" -> validateUploadedFile_cu(file)

----------------------------------------------------------------------------
(* Remote Asset Store: delete.  reachable is whether the call of           *)
(* cloudinary.uploader.destroy gets an answer from the service; the        *)
(* service answers 'ok' for a public id it holds and 'not found' otherwise.*)

\* an empty public id
NoId == <<"", 0>>

\* the destroy call as an entry of outbound
DestroyCall(publicId) == <<"destroy", publicId[2]>>

\* cloudinary.uploader.destroy(publicId) answered by the service
destroy(r, publicId) ==
  IF publicId \in r
    THEN [result |-> "ok", remote |-> r \ {publicId}]
    ELSE [result |-> "not found", remote |-> r]

Deleted(success, code, publicId, r, calls) ==
  [success |-> success, code |-> code, publicId |-> publicId, remote |-> r,
   calls |-> calls]

\* deleteImageFromCloudinary of middleware/upload.js
deleteImageFromCloudinary_alwaysOk(publicId, reachable, r) ==
  Deleted(TRUE, "ok", publicId, r \ {publicId}, <<DestroyCall(publicId)>>)

deleteImageFromCloudinary(publicId, reachable, r) ==
  IF publicId = NoId
    THEN Deleted(FALSE, "No public ID provided", NoId, r, <<>>)
  ELSE IF ~reachable
    THEN \* catch (error)
         Deleted(FALSE, "error", publicId, r, <<DestroyCall(publicId)>>)
  ELSE IF destroy(r, publicId).result = "ok"
    THEN Deleted(TRUE, "ok", publicId, destroy(r, publicId).remote,
                 <<DestroyCall(publicId)>>)
  ELSE Deleted(FALSE, destroy(r, publicId).result, publicId,
               destroy(r, publicId).remote, <<DestroyCall(publicId)>>)

\* DELETE /api/projects/delete-image/:publicId of server.js
deleteImageRoute(publicId, reachable, r) ==
  IF ~reachable
    THEN [response |-> Response(500, FALSE, <<>>, 0,
                                <<Message("Failed to delete image")>>),
          remote |-> r, calls |-> <<DestroyCall(publicId)>>]
  ELSE IF destroy(r, publicId).result = "ok"
    THEN [response |-> Response(200, TRUE, <<>>, 0, <<>>),
          remote |-> destroy(r, publicId).remote,
          calls |-> <<DestroyCall(publicId)>>]
  ELSE [response |-> Response(404, FALSE, <<>>, 0,
                              <<Message("Image not found or already deleted")>>),
        remote |-> destroy(r, publicId).remote,
        calls |-> <<DestroyCall(publicId)>>]

\* batchDeleteImages: `await` in the loop body, the next deletion starts
\* when no deletion is under way
deleteMayStart_parallel(inflight) == TRUE

deleteMayStart(inflight) == inflight = {}

----------------------------------------------------------------------------
(* Local Asset Store: delete (middleware/uploadImage.js) *)

\* path.join(UPLOAD_DIR, 'thumbnails', filename)
thumbnailOf(filename) == <<"thumbnail", filename[2]>>

\* deleteImageFile: the main image and the thumbnail are unlinked, each in
\* its own try/catch; an empty filename returns at once
deleteImageFile_local_mainOnly(filename, d) ==
  IF filename = NoId THEN d ELSE unlink(d, filename).disk

deleteImageFile_local(filename, d) ==
  IF filename = NoId THEN d
  ELSE unlink(unlink(d, filename).disk, thumbnailOf(filename)).disk

----------------------------------------------------------------------------
(* Local Asset Store: cleanupOldImages.  An entry of the directory is a    *)
(* record [name, kind, expired, statOk, unlinkOk]: kind is "file", "dir"   *)
(* or "thumbnails" (the directory of that name), expired is mtime <        *)
(* cutoffDate, statOk and unlinkOk are the file system's answers.  Each    *)
(* operator is one iteration of the loop over the entries.                 *)

Swept(d, deletedCount, errors, aborted) ==
  [disk |-> d, deletedCount |-> deletedCount, errors |-> errors,
   aborted |-> aborted]

\* fs.unlink of an entry: a directory cannot be unlinked
unlinkEntryThrows(entry) == entry.kind # "file" \/ ~entry.unlinkOk

\* middleware/uploadImage.js: try/catch around each entry
cleanupOldImages_local(entry, d, deletedCount, errors) ==
  IF entry.kind = "thumbnails" THEN Swept(d, deletedCount, errors, FALSE)
  ELSE IF ~entry.statOk
    THEN Swept(d, deletedCount, Append(errors, entry.name), FALSE)
  ELSE IF entry.kind = "file" /\ entry.expired
    THEN IF unlinkEntryThrows(entry)
           THEN Swept(d, deletedCount, Append(errors, entry.name), FALSE)
           ELSE Swept(unlink(unlink(d, entry.name).disk,
                             thumbnailOf(entry.name)).disk,
                      deletedCount + 1, errors, FALSE)
  ELSE Swept(d, deletedCount, errors, FALSE)

\* utils/uploadImage: one try/catch around the whole loop, whose catch
\* block returns 0
cleanupOldImages_utils(entry, d, deletedCount, errors) ==
  IF ~entry.statOk THEN Swept(d, 0, errors, TRUE)
  ELSE IF entry.expired
    THEN IF unlinkEntryThrows(entry)
           THEN Swept(d, 0, errors, TRUE)
           ELSE Swept(unlink(d, entry.name).disk, deletedCount + 1, errors,
                      FALSE)
  ELSE Swept(d, deletedCount, errors, FALSE)

----------------------------------------------------------------------------
(* Remote Asset Store: cleanupOldImages of middleware/upload.js.  A folder *)
(* is the sequence of its assets [id, expired] in listing order; expired   *)
(* is created_at < cutoffDate.                                             *)

\* cloudinary.api.resources({prefix, max_results}): the first page only
resources(folder) ==
  [resources |-> SubSeq(folder, 1, IF Len(folder) < max_results
                                     THEN Len(folder) ELSE max_results),
   next_cursor |-> Len(folder) > max_results]

\* results.resources.filter(createdDate < cutoffDate).map(public_id)
oldImages(page) ==
  {page[i].id : i \in {j \in DOMAIN page : page[j].expired}}

\* cleanupOldImages: listOk and deleteOk are whether the two Admin API
\* calls are answered; the result is {deletedCount, errors}
cleanupOldImages_upload(folder, listOk, deleteOk, r) ==
  IF ~listOk
    THEN [deletedCount |-> 0, errors |-> <<"error">>, remote |-> r]
  ELSE IF oldImages(resources(folder).resources) = {}
    THEN [deletedCount |-> 0, errors |-> <<>>, remote |-> r]
  ELSE IF ~deleteOk
    THEN [deletedCount |-> 0, errors |-> <<"error">>, remote |-> r]
  ELSE [deletedCount |-> Cardinality(oldImages(resources(folder).resources)),
        errors |-> <<>>,
        remote |-> r \ oldImages(resources(folder).resources)]

----------------------------------------------------------------------------
(* Process start.  env tells, for each of CLOUDINARY_CLOUD_NAME,           *)
(* CLOUDINARY_API_KEY and CLOUDINARY_API_SECRET, whether it is set.        *)

\* verifyCloudinaryConfig of server.js: true when the three values are set
verifyCloudinaryConfig(env) == env.cloud_name /\ env.api_key /\ env.api_secret

\* the top-level statements of server.js (disk-staging variant):
\* verifyCloudinaryConfig() is called and its value dropped, app.listen
\* follows; unnamed/part_006 passes String(process.env.X).trim() to
\* cloudinary.config and calls app.listen without any verification
startup(variant, env) ==
  [listening |-> TRUE,
   verified |-> IF variant = "server" THEN verifyCloudinaryConfig(env)
                ELSE TRUE]

----------------------------------------------------------------------------
(* Identifier Generator.  A filename is a sequence of characters.          *)

\* the characters that original filenames are made of
Chars == {"a", "P", "7", "_", "-", " ", "!", "."}

\* String.prototype.toLowerCase on one character
lowerChar(c) == IF c = "P" THEN "p" ELSE c

lowerCase(str) == [i \in DOMAIN str |-> lowerChar(str[i])]

\* path.extname: from the last '.' to the end; empty when there is no '.'
\* or when the only '.' is the first character
extname(name) ==
  LET dots == {i \in DOMAIN name : name[i] = "."}
      last == CHOOSE i \in dots : \A j \in dots : j <= i
  IN IF dots = {} \/ last = 1 THEN <<>>
     ELSE SubSeq(name, last, Len(name))

\* path.basename(name, ext): ext is cut off when name ends with it and is
\* longer than it
basename(name, ext) ==
  IF /\ Len(ext) > 0
     /\ Len(name) > Len(ext)
     /\ SubSeq(name, Len(name) - Len(ext) + 1, Len(name)) = ext
    THEN SubSeq(name, 1, Len(name) - Len(ext))
    ELSE name

\* /[a-zA-Z0-9]/ on the characters of the model
isAlphanumeric(c) == c \in {"a", "p", "P", "7"}

\* generateUniqueFilename of middleware/upload.js: the part of the public
\* id in front of _<timestamp>_<random>
generateUniqueFilename_upload(originalname) ==
  basename(originalname, lowerCase(extname(originalname)))

\* server.js (disk-staging route): cleanBasename of the public id
\* project_<cleanBasename>_<timestamp>_<random>
cleanBasename_server(originalname) ==
  LET baseFilename == basename(originalname, extname(originalname))
  IN [i \in DOMAIN baseFilename |->
        IF isAlphanumeric(baseFilename[i]) THEN baseFilename[i] ELSE "_"]

----------------------------------------------------------------------------
(* Identifier Generator: timestamp and random token.  A value of           *)
(* Math.random() is the sequence of the base-36 digits of its fraction,    *)
(* the last one not zero; the empty sequence is the value 0.               *)

\* Number.prototype.toString(36) of a value in [0, 1)
toString36(digits) ==
  IF digits = <<>> THEN <<"0">> ELSE <<"0", ".">> \o digits

\* String.prototype.substring(from, to), positions counted from 0
substring(str, from, to) ==
  SubSeq(str, from + 1, IF to < Len(str) THEN to ELSE Len(str))

Identifier(timestamp, randomString) ==
  [timestamp |-> timestamp, randomString |-> randomString]

\* generateUniqueFilename of middleware/upload.js: _<timestamp>_<randomString>
uniqueSuffix_upload(now, random) ==
  Identifier(now, substring(toString36(random), 2, 8))

\* uploadToCloudinary of server.js (memory-storage variant)
uniqueSuffix_server(now, random) ==
  Identifier(now, substring(toString36(random), 2, 6))

----------------------------------------------------------------------------
(* Upload Orchestrator: the try/catch around one iteration of a batch.     *)
(* raised tells whether the iteration lets an exception escape the loop,   *)
(* which rejects the promise of batchProcessImages.                        *)

Caught(it) == [raised |-> FALSE, it |-> it]

Escaped(d) ==
  [raised |-> TRUE,
   it |-> Iteration(Result(FALSE, <<"unknown", 0>>, <<>>, "TypeError"), d, <<>>)]

\* middleware/upload.js: the catch block reads file?.originalname
tryIteration_upload(file, d) ==
  IF file # NoFile /\ file.path # NoPath /\ validateThrows("upload", file)
    THEN Caught(Iteration(Result(FALSE, file.originalname, <<>>, "TypeError"),
                          d, <<>>))
    ELSE Caught(batchProcessImages_upload(file, d))

\* middleware/uploadImage.js: the try block reads file.originalname and the
\* catch block reads it again, so a missing file object throws in the catch
\* block itself; statOk is the outcome of fs.stat on the written file
tryIteration_local(i, file, thumbOk, statOk, d) ==
  IF file = NoFile THEN Escaped(d)
  ELSE IF file.mimetype = Undefined
    THEN Caught(Iteration(Result(FALSE, file.originalname, <<>>, "TypeError"),
                          d, <<>>))
  ELSE LET it == batchProcessImages_local(i, file, thumbOk, d)
       IN IF it.result.success /\ ~statOk
            THEN Caught(Iteration(Result(FALSE, file.originalname, <<>>,
                                         "ENOENT"),
                                  it.disk, <<>>))
            ELSE Caught(it)

----------------------------------------------------------------------------
(* Remote Asset Store: settling of a put.  answer is what the client       *)
(* library hands to the continuation of the call: "ok", "error" or         *)
(* "timeout".  A settlement is "resolved", "rejected" or "pending".        *)

Settlement(settled, success) == [settled |-> settled, success |-> success]

\* uploadStreamToCloudinary: the callback given to upload_stream
uploadStream_callback(answer) ==
  IF answer # "ok" THEN Settlement("rejected", FALSE)
  ELSE Settlement("resolved", TRUE)

processFileBuffer_callback_silentOnError(answer) ==
  IF answer # "ok" THEN Settlement("pending", FALSE)
  ELSE Settlement("resolved", TRUE)

\* processFileBuffer: the callback given to upload_stream
processFileBuffer_callback(answer) ==
  IF answer # "ok" THEN Settlement("resolved", FALSE)
  ELSE Settlement("resolved", TRUE)

\* the answers the remote side can give to a put: the stream that
\* uploadStreamToCloudinary opens is returned from the promise executor,
\* which discards it, so it is never written nor ended and no request
\* completes; only the network timeout can end the call
answersTo(op) ==
  IF op = "stream" THEN {"timeout"} ELSE {"ok", "error", "timeout"}

----------------------------------------------------------------------------
(* Users (models/User.js).  db.users is the users collection; the unique   *)
(* index of the schema is on email only.                                   *)

\* lockUntil: { type: Date, default: null }
NullDate == -1

Email(i) == <<"email", i>>

\* a document with the defaults of UserSchema
UserDoc(email, role) ==
  [email |-> email, role |-> role, isActive |-> TRUE, loginAttempts |-> 0,
   lockUntil |-> NullDate]

\* findOne({ role: 'Admin' }) of createInitialAdmin: is there such a document
findOneAdmin(users) == \E u \in users : u.role = "Admin"

\* findOne({ $or: [{ email }, { role: 'Admin' }] }) of User.createAdmin
findOneEmailOrAdmin(users, email) ==
  \E u \in users : u.email = email \/ u.role = "Admin"

\* Model.create / document.save of a new document: the unique index on
\* email rejects a second document with the same email
insertUser(users, doc) ==
  IF \E u \in users : u.email = doc.email
    THEN [ok |-> FALSE, users |-> users]
    ELSE [ok |-> TRUE, users |-> users \cup {doc}]

\* createInitialAdmin / User.createAdmin after the existence check:
\* existingAdmin is what the check read
insertAdmin(users, existingAdmin, email) ==
  IF existingAdmin THEN [status |-> 400, users |-> users]
  ELSE LET created == insertUser(users, UserDoc(email, "Admin"))
       IN [status |-> IF created.ok THEN 201 ELSE 500, users |-> created.users]

----------------------------------------------------------------------------
(* Login: account lock (models/User.js) and the admin login endpoint.      *)

maxAttempts == 5

\* the virtual isLocked, read at time t
isLocked(user, t) == user.lockUntil # NullDate /\ user.lockUntil > t

\* incLoginAttempts: the update it sends, computed from the loaded copy
incLoginAttempts(user, t) ==
  IF user.lockUntil # NullDate /\ user.lockUntil < t
    THEN [unsetLock |-> TRUE, setAttempts |-> TRUE, inc |-> 0,
          setLock |-> FALSE, lockUntil |-> NullDate]
  ELSE IF user.loginAttempts + 1 >= maxAttempts /\ ~isLocked(user, t)
    THEN [unsetLock |-> FALSE, setAttempts |-> FALSE, inc |-> 1,
          setLock |-> TRUE, lockUntil |-> t + lockTime]
  ELSE [unsetLock |-> FALSE, setAttempts |-> FALSE, inc |-> 1,
        setLock |-> FALSE, lockUntil |-> NullDate]

\* updateLastLogin: save() writes the paths whose value changed on the copy
updateLastLogin(user) ==
  [unsetLock |-> user.lockUntil # NullDate, setAttempts |-> FALSE,
   inc |-> 0, setLock |-> FALSE, lockUntil |-> NullDate,
   resetAttempts |-> user.loginAttempts # 0]

\* updateOne / save: the database applies the update to the stored document
applyUpdate(doc, update) ==
  [doc EXCEPT
     !.loginAttempts =
        IF "resetAttempts" \in DOMAIN update /\ update.resetAttempts THEN 0
        ELSE IF update.setAttempts THEN 1 ELSE @ + update.inc,
     !.lockUntil =
        IF update.unsetLock THEN NullDate
        ELSE IF update.setLock THEN update.lockUntil ELSE @]

updateUser(users, email, update) ==
  {IF u.email = email THEN applyUpdate(u, update) ELSE u : u \in users}

NoUpdate ==
  [unsetLock |-> FALSE, setAttempts |-> FALSE, inc |-> 0, setLock |-> FALSE,
   lockUntil |-> NullDate]

LoginResult(status, token, update) ==
  [status |-> status, token |-> token, update |-> update]

\* User.findByCredentials after the document is loaded; user is the loaded
\* copy (None when no active user has the email), wasLocked the value of
\* isLocked read right after the load, isMatch the outcome of matchPassword
findByCredentials(user, wasLocked, isMatch, t) ==
  IF user = None THEN LoginResult(401, FALSE, NoUpdate)
  ELSE IF wasLocked THEN LoginResult(423, FALSE, incLoginAttempts(user, t))
  ELSE IF ~isMatch THEN LoginResult(401, FALSE, incLoginAttempts(user, t))
  ELSE LoginResult(200, TRUE, updateLastLogin(user))

\* login of controller/admincontroller.js after the document is loaded:
\* save() writes lastLogin only
login(user, isMatch) ==
  IF user = None \/ ~isMatch THEN LoginResult(401, FALSE, NoUpdate)
  ELSE IF ~user.isActive THEN LoginResult(401, FALSE, NoUpdate)
  ELSE LoginResult(200, TRUE, NoUpdate)

----------------------------------------------------------------------------
(* Projects (controller/projectController.js): what the handlers persist.  *)
(* A body holds title (0 when absent), startDate and endDate (0 when       *)
(* absent) and featured as the client sent it.                             *)

\* req.body.featured === 'true' || req.body.featured === true
parseFeatured(featured) == featured \in {"'true'", "true"}

\* the part of a body that createProject and updateProject validate
validatedBody(body, exists) ==
  [GoodBody EXCEPT !.fields = body.title # 0, !.startDate = body.startDate,
                   !.endDate = body.endDate, !.exists = exists]

\* projectData of createProject
projectData(id, body) ==
  [id |-> id, title |-> body.title, startDate |-> body.startDate,
   endDate |-> body.endDate, featured |-> parseFeatured(body.featured)]

\* updateData of updateProject applied by findByIdAndUpdate: ...req.body
\* sets the fields the body holds, featured is always set
applyUpdateData(project, body) ==
  [project EXCEPT
     !.title = IF body.title # 0 THEN body.title ELSE @,
     !.startDate = IF body.startDate # 0 THEN body.startDate ELSE @,
     !.endDate = IF body.endDate # 0 THEN body.endDate ELSE @,
     !.featured = parseFeatured(body.featured)]

\* the update of toggleFeatured: { featured: req.body.featured }
applyToggle(project, featured) == [project EXCEPT !.featured = featured]

findById(projects, id) ==
  IF \E d \in projects : d.id = id
    THEN CHOOSE d \in projects : d.id = id
    ELSE None

replaceProject(projects, project) ==
  {IF d.id = project.id THEN project ELSE d : d \in projects}

----------------------------------------------------------------------------
(* Authorization (middleware/auth.js).  A user object is [role |-> r] or   *)
(* None when the request carries none; the role Undefined is a user        *)
(* object without a role.                                                  *)

RoleUniverse ==
  {"Admin", "admin", "ADMIN", "User", "user", "Editor", "Guest", "", Undefined}

\* String.prototype.toLowerCase on the role universe
roleToLowerCase(role) ==
  CASE role \in {"Admin", "ADMIN"} -> "admin"
    [] role = "User" -> "user"
    [] role = "Editor" -> "editor"
    [] role = "Guest" -> "guest"
    [] OTHER -> role

Decision(status, next) == [status |-> status, next |-> next]

\* adminonly: user is req.user, bodyUser is req.body.user; status 0 stands
\* for no response sent by the middleware
adminonly(user, bodyUser) ==
  IF bodyUser = None \/ user = None THEN Decision(401, FALSE)
  ELSE IF bodyUser.role = Undefined THEN Decision(500, FALSE)
  ELSE IF roleToLowerCase(bodyUser.role) = "" /\ user.role = Undefined
    THEN Decision(500, FALSE)
  ELSE LET userRole == IF roleToLowerCase(bodyUser.role) # ""
                         THEN roleToLowerCase(bodyUser.role)
                         ELSE roleToLowerCase(user.role)
       IN IF userRole # "admin" THEN Decision(403, FALSE)
          ELSE Decision(0, TRUE)

----------------------------------------------------------------------------
(* Initial state: the server is up, nothing staged, no call made. *)

Init ==
  /\ db = [users |-> {}, projects |-> {}]
  /\ disk = {}
  /\ clock = 0
  /\ outbound = <<>>
  /\ pc = "idle"
  /\ remote = {}
  /\ req = None
  /\ res = None

----------------------------------------------------------------------------
(* Specification SpecPut: staged files and single put calls.               *)
(* req holds the paths staged so far, res the paths for which a put call   *)
(* has returned and the last result.                                       *)

Paths == {StagedPath(i) : i \in 1 .. MaxFiles}

PutStarted == pc = "put"

\* multer's disk storage writes an upload under a fresh unique name
StageFile ==
  /\ pc \in {"idle", "put"}
  /\ \E p \in Paths :
       /\ p \notin (IF pc = "idle" THEN {} ELSE req.staged)
       /\ disk' = disk \cup {p}
       /\ req' = [staged |-> (IF pc = "idle" THEN {} ELSE req.staged) \cup {p}]
       /\ res' = IF pc = "idle"
                   THEN [returned |-> {}, last |-> None, impl |-> "none"]
                   ELSE res
  /\ pc' = "put"
  /\ UNCHANGED outbound
  /\ UNCHANGED <<db, clock, remote>>

PutReturn(impl, p, r) ==
  /\ disk' = r.disk
  /\ Len(outbound) < MaxCalls
  /\ outbound' = outbound \o r.calls
  /\ UNCHANGED <<db, clock>>
  /\ remote' = remote \cup Stored(r.success, r.calls)
  /\ res' = [returned |-> res.returned \cup {p},
             last |-> [path |-> p, success |-> r.success], impl |-> impl]
  /\ UNCHANGED <<pc, req>>

\* a call of uploadToCloudinary of middleware/upload.js on a staged path
PutUpload ==
  /\ PutStarted
  /\ \E p \in req.staged, answerOk \in BOOLEAN :
       PutReturn("upload", p, uploadToCloudinary_upload(p, answerOk, disk))

\* a call of uploadToCloudinary of server.js on a staged path
PutServer ==
  /\ PutStarted
  /\ \E p \in req.staged, answerOk \in BOOLEAN :
       PutReturn("server", p, uploadToCloudinary_server(p, answerOk, disk))

NextPut == StageFile \/ PutUpload \/ PutServer

SpecPut == Init /\ [][NextPut]_vars

\* C1: when a call of uploadToCloudinary(filePath) has returned, with a
\* success or with a failure result, filePath is not on disk.
C1_StagedFileGoneAfterPut ==
  PutStarted => \A p \in res.returned : p \notin disk

\* C1 witness: a put of a staged file failed remotely, has returned, and the
\* file is gone while another staged file is still waiting on disk.
C1_Witness ==
  /\ PutStarted
  /\ res.last # None
  /\ res.last.success = FALSE
  /\ res.last.path \notin disk
  /\ disk # {}

----------------------------------------------------------------------------
(* Specification SpecBatch: one batch run of each batch implementation.    *)
(* req = [impl, files]; res = [results, errors, idx, response].            *)

BatchMimes == {"image/png", "application/pdf"}
BatchSizes == {1, 12 * MiB}

\* attributes of a file of a batch: <<mimetype, size, storeOk, staged>>; one
\* representative stands for the file objects without a staged path
BatchAttrs ==
  (BatchMimes \X BatchSizes \X BOOLEAN \X {TRUE})
    \cup {<<"image/png", 1, TRUE, FALSE>>}

MkFile(i, a) ==
  [originalname |-> OriginalName(i),
   path |-> IF a[4] THEN StagedPath(i) ELSE NoPath,
   mimetype |-> a[1], size |-> a[2], storeOk |-> a[3]]

Batches ==
  UNION { { [i \in 1 .. n |-> MkFile(i, a[i])] : a \in [1 .. n -> BatchAttrs] }
          : n \in 0 .. MaxFiles }

StagedPathsOf(files) ==
  {files[i].path : i \in DOMAIN files} \ {NoPath}

BatchImpls == {"upload", "cu", "local", "utils", "controller"}

\* multer has staged the files of the request; the batch run starts
BatchBegin ==
  /\ pc = "idle"
  /\ \E impl \in BatchImpls, files \in Batches :
       /\ req' = [impl |-> impl, files |-> files]
       /\ disk' = StagedPathsOf(files)
  /\ res' = [results |-> <<>>, errors |-> <<>>, idx |-> 1, response |-> None]
  /\ pc' = "batch"
  /\ UNCHANGED outbound
  /\ UNCHANGED <<db, clock, remote>>

InLoop(impl) ==
  /\ pc = "batch"
  /\ req.impl = impl
  /\ res.idx <= Len(req.files)

Pushed(it) ==
  /\ res' = [res EXCEPT !.results = Append(@, it.result), !.idx = @ + 1]
  /\ disk' = it.disk
  /\ outbound' = outbound \o it.calls
  /\ UNCHANGED <<db, clock>>
  /\ remote' = remote \cup Stored(it.calls # <<>> /\ it.result.success, it.calls)
  /\ UNCHANGED <<pc, req>>

IterUpload ==
  /\ InLoop("upload")
  /\ Pushed(batchProcessImages_upload(req.files[res.idx], disk))

IterCu ==
  /\ InLoop("cu")
  /\ Pushed(batchProcessImages_cu(req.files[res.idx], disk))

IterLocal ==
  /\ InLoop("local")
  /\ \E thumbOk \in BOOLEAN :
       Pushed(batchProcessImages_local(res.idx, req.files[res.idx], thumbOk, disk))

IterUtils ==
  /\ InLoop("utils")
  /\ Pushed(batchProcessImages_utils(req.files[res.idx], disk))

IterController ==
  /\ InLoop("controller")
  /\ LET it == uploadProjectImages_iteration(req.files[res.idx], res.results,
                                             res.errors)
     IN res' = [res EXCEPT !.results = it.uploadResults, !.errors = it.errors,
                           !.idx = @ + 1]
  /\ UNCHANGED <<disk, outbound, pc, req>>
  /\ UNCHANGED <<db, clock, remote>>

\* batchProcessImages returns its results
BatchReturn ==
  /\ pc = "batch"
  /\ req.impl # "controller"
  /\ res.idx > Len(req.files)
  /\ pc' = "returned"
  /\ UNCHANGED <<disk, outbound, req, res>>
  /\ UNCHANGED <<db, clock, remote>>

\* uploadProjectImages sends its response
ControllerRespond ==
  /\ pc = "batch"
  /\ req.impl = "controller"
  /\ res.idx > Len(req.files)
  /\ res' = [res EXCEPT !.response =
               IF Len(req.files) = 0 THEN uploadProjectImages_noFiles
               ELSE uploadProjectImages_respond(res.results, res.errors)]
  /\ pc' = "returned"
  /\ UNCHANGED <<disk, outbound, req>>
  /\ UNCHANGED <<db, clock, remote>>

NextBatch ==
  \/ BatchBegin
  \/ IterUpload
  \/ IterCu
  \/ IterLocal
  \/ IterUtils
  \/ IterController
  \/ BatchReturn
  \/ ControllerRespond

SpecBatch == Init /\ [][NextBatch]_vars

BatchReturned(impls) == pc = "returned" /\ req.impl \in impls

\* C2: after batchProcessImages of the remote store or of the local store
\* has returned, no input file that had a staged path is still on disk.
C2_NoStagedFileAfterBatch ==
  BatchReturned({"upload", "cu", "local"}) =>
    \A i \in DOMAIN req.files :
      req.files[i].path # NoPath => req.files[i].path \notin disk

\* the name an entry of a result list was produced for
EntryName(r) ==
  IF "originalName" \in DOMAIN r THEN r.originalName ELSE r.filename

\* the per-file result list a batch run hands to its caller
ResultList == IF req.impl = "controller" THEN res.response.data ELSE res.results

\* C5: a batch run over N files returns exactly N per-file results and
\* result i is the one of input file i (named after it, or after the
\* identifier generated for it in iteration i).
C5_OneResultPerFileInOrder ==
  pc = "returned" =>
    /\ Len(ResultList) = Len(req.files)
    /\ \A i \in DOMAIN req.files :
         EntryName(ResultList[i]) \in {req.files[i].originalname, ImagePath(i)}

\* a file that passes the validation of utils/uploadImage
PassesUtils(file) == file.mimetype \in allowedTypes /\ file.size <= 5 * MiB

ControllerResponded == BatchReturned({"controller"}) /\ Len(req.files) >= 1

\* C7 as stated: a batch upload answered by uploadProjectImages gets a 2xx
\* status however many of its files succeeded, also when none did.
C7_BatchAlways2xx ==
  ControllerResponded => res.response.status \in 200 .. 299

\* C7 as amended: uploadProjectImages answers 200 exactly when at least one
\* file passes validation; when every file fails it answers 400 and the
\* response carries the failure detail of every file, in input order.
C7_BatchStatusByValidCount ==
  ControllerResponded =>
    LET valid == {i \in DOMAIN req.files : PassesUtils(req.files[i])}
    IN /\ res.response.status = (IF valid = {} THEN 400 ELSE 200)
       /\ res.response.success = (valid # {})
       /\ res.response.count = Cardinality(valid)
       /\ valid = {} =>
            /\ Len(res.response.errors) = Len(req.files)
            /\ \A i \in DOMAIN req.files :
                 /\ res.response.errors[i].filename = req.files[i].originalname
                 /\ res.response.errors[i].errors # <<>>

\* C7 witness: a batch of several files, all rejected, answered 400 with one
\* failure entry per file.
C7_Witness ==
  /\ ControllerResponded
  /\ Len(req.files) >= 2
  /\ \A i \in DOMAIN req.files : ~PassesUtils(req.files[i])
  /\ res.response.status = 400
  /\ Len(res.response.errors) = Len(req.files)

----------------------------------------------------------------------------
(* Specification SpecRoute: one request through an upload route.           *)
(* req = [router, route, files, body]; res = [response, by, next].         *)

RouteMimes == {"image/png", "application/pdf"}
RouteSizes == {1, 7 * MiB, 12 * MiB}

RouteFile(i, a) ==
  [originalname |-> OriginalName(i), path |-> StagedPath(i),
   mimetype |-> a[1], size |-> a[2], storeOk |-> TRUE]

RouteFiles(max) ==
  UNION { { [i \in 1 .. n |-> RouteFile(i, a[i])]
            : a \in [1 .. n -> RouteMimes \X RouteSizes] }
          : n \in 0 .. max }

Routers == {"projectroutes", "part_003"}

\* a request arrives: the field `image` of /upload-image holds at most one
\* file, the field `images` of the other routes any number up to the bound
Receive ==
  /\ pc = "idle"
  /\ \E router \in Routers,
        route \in {"upload-image", "upload-multiple", "create", "update"} :
       \E files \in RouteFiles(IF route = "upload-image" THEN 1 ELSE MaxFiles),
          body \in (IF route \in {"create", "update"} THEN Bodies ELSE {GoodBody}) :
         req' = [router |-> router, route |-> route, files |-> files,
                 body |-> body]
  /\ res' = [response |-> None, by |-> "", next |-> FALSE]
  /\ pc' = "multer"
  /\ UNCHANGED <<disk, outbound>>
  /\ UNCHANGED <<db, clock, remote>>

\* uploadSingle / uploadMultiple, then handleUploadError on an error
Multer ==
  /\ pc = "multer"
  /\ LET m == multer_routes(req.files, disk)
     IN /\ disk' = m.disk
        /\ IF m.error # ""
             THEN /\ res' = [response |-> handleUploadError(m.error),
                             by |-> "handleUploadError", next |-> FALSE]
                  /\ pc' = "responded"
             ELSE /\ res' = res
                  /\ pc' = IF req.router = "part_003" THEN "validate"
                           ELSE "handler"
  /\ UNCHANGED <<outbound, req>>
  /\ UNCHANGED <<db, clock, remote>>

\* the validation middleware of part_003; the update route skips it when
\* the request holds no file
ValidateUploadedFiles ==
  /\ pc = "validate"
  /\ IF req.route = "update" /\ Len(req.files) = 0
       THEN /\ pc' = "handler"
            /\ UNCHANGED <<disk, res>>
       ELSE LET v == validateUploadedFiles(req.files, disk)
            IN /\ disk' = v.disk
               /\ res' = [response |-> v.response, by |-> "validateUploadedFiles",
                          next |-> v.next]
               /\ pc' = IF v.next THEN "handler" ELSE "responded"
  /\ UNCHANGED <<outbound, req>>
  /\ UNCHANGED <<db, clock, remote>>

Responds(response) ==
  /\ res' = [res EXCEPT !.response = response, !.by = "handler"]
  /\ pc' = "responded"
  /\ UNCHANGED <<db, clock, disk, outbound, remote, req>>

\* upload.single sets req.file, upload.array sets req.files only
ReqFile ==
  IF req.route = "upload-image" /\ Len(req.files) = 1 THEN req.files[1]
  ELSE NoFile

HandleUploadImage ==
  /\ pc = "handler"
  /\ req.route \in {"upload-image", "upload-multiple"}
  /\ Responds(uploadImage(ReqFile))

HandleCreateProject ==
  /\ pc = "handler"
  /\ req.route = "create"
  /\ Responds(createProject(req.body))

HandleUpdateProject ==
  /\ pc = "handler"
  /\ req.route = "update"
  /\ Responds(updateProject(req.body))

NextRoute ==
  \/ Receive
  \/ Multer
  \/ ValidateUploadedFiles
  \/ HandleUploadImage
  \/ HandleCreateProject
  \/ HandleUpdateProject

SpecRoute == Init /\ [][NextRoute]_vars

Responded == pc = "responded"

\* C3: when an upload route answers with a non-success status, every file
\* the request staged on disk has been deleted.
C3_StagedFilesDeletedOnFailure ==
  (Responded /\ res.response.status \notin 200 .. 299) =>
    \A i \in DOMAIN req.files : req.files[i].path \notin disk

\* C6: in a batch, a file gets the outcome it would get if uploaded alone
\* (handed on to the handler or rejected, kept on disk or deleted), whatever
\* the other files of the batch are.
C6_PerFileIsolation ==
  (pc \in {"handler", "responded"} /\ res.by = "validateUploadedFiles") =>
    \A i \in DOMAIN req.files :
      LET alone == validateUploadedFiles(<<req.files[i]>>, {req.files[i].path})
      IN /\ res.next = alone.next
         /\ (req.files[i].path \in disk) = (req.files[i].path \in alone.disk)

\* C8: POST /upload-multiple with one or more valid image files answers with
\* success and one result per file, count being the number of files.
C8_UploadMultipleAnswersPerFile ==
  (/\ Responded
   /\ req.route = "upload-multiple"
   /\ Len(req.files) >= 1
   /\ \A i \in DOMAIN req.files : PassesUtils(req.files[i])) =>
    /\ res.response.success
    /\ res.response.status = 200
    /\ Len(res.response.data) = Len(req.files)
    /\ res.response.count = Len(req.files)

----------------------------------------------------------------------------
(* Specification SpecServer: one file through an upload path.              *)
(* req = [impl, file, answerOk]; res = [response, by].                     *)

ServerImpls == {"processUploadedFile", "memory", "disk"}

ServerFiles ==
  {NoFile} \cup
  {[originalname |-> OriginalName(1), path |-> StagedPath(1),
    mimetype |-> m, size |-> n, storeOk |-> TRUE]
     : m \in MimeUniverse, n \in SizeUniverse}

\* a request reaches a route of server.js, or a caller hands a file that
\* multer has staged to processUploadedFile
ServerReceive ==
  /\ pc = "idle"
  /\ \E impl \in ServerImpls, file \in ServerFiles, answerOk \in BOOLEAN :
       /\ req' = [impl |-> impl, file |-> file, answerOk |-> answerOk]
       /\ IF impl = "processUploadedFile"
            THEN /\ pc' = "handler"
                 /\ disk' = IF file = NoFile THEN disk ELSE disk \cup {file.path}
            ELSE /\ pc' = "multer"
                 /\ disk' = disk
  /\ res' = [response |-> None, by |-> ""]
  /\ UNCHANGED outbound
  /\ UNCHANGED <<db, clock, remote>>

\* upload.single('image'); an error goes to the global error handler
ServerMulter ==
  /\ pc = "multer"
  /\ LET m == multer_server(req.file, req.impl, disk)
     IN /\ disk' = m.disk
        /\ IF m.error # ""
             THEN /\ res' = [response |->
                               IF req.impl = "memory"
                                 THEN globalErrorHandler_memory(m.error)
                                 ELSE globalErrorHandler_disk(m.error),
                             by |-> "globalErrorHandler"]
                  /\ pc' = "done"
             ELSE /\ res' = res
                  /\ pc' = "handler"
  /\ UNCHANGED <<outbound, req>>
  /\ UNCHANGED <<db, clock, remote>>

ServerReturn(o) ==
  /\ disk' = o.disk
  /\ outbound' = outbound \o o.calls
  /\ UNCHANGED <<db, clock>>
  /\ remote' = remote \cup Stored(o.calls # <<>> /\ o.response.success, o.calls)
  /\ res' = [response |-> o.response, by |-> "handler"]
  /\ pc' = "done"
  /\ UNCHANGED req

ProcessUploadedFile ==
  /\ pc = "handler"
  /\ req.impl = "processUploadedFile"
  /\ ServerReturn(processUploadedFile_upload(req.file, req.answerOk, disk))

MemoryRoute ==
  /\ pc = "handler"
  /\ req.impl = "memory"
  /\ ServerReturn(uploadRoute_memory(req.file, req.answerOk, disk))

DiskRoute ==
  /\ pc = "handler"
  /\ req.impl = "disk"
  /\ ServerReturn(uploadRoute_disk(req.file, req.answerOk, disk))

NextServer ==
  \/ ServerReceive
  \/ ServerMulter
  \/ ProcessUploadedFile
  \/ MemoryRoute
  \/ DiskRoute

SpecServer == Init /\ [][NextServer]_vars

ServerDone == pc = "done"

\* the file of the request is one that the validation of its path rejects:
\* its MIME type is unsupported or its size is above the maximum
ValidationRejects ==
  /\ req.file # NoFile
  /\ IF req.impl = "processUploadedFile"
       THEN \/ ~isValidImageType_upload(req.file.mimetype)
            \/ ~isValidFileSize_upload(req.file.size)
       ELSE \/ ~isValidImageType_utils(req.file.mimetype)
            \/ ~isValidFileSize_utils(req.file.size)

\* C4: when validation rejects a file, the result for the file is
\* success:false and no call to the remote service has been made.
C4_ValidationPrecedesOutbound ==
  (ServerDone /\ ValidationRejects) =>
    /\ res.response.success = FALSE
    /\ outbound = <<>>

\* C4 witness: processUploadedFile has returned for a 12 MiB PNG with
\* success:false and the too-large violation, and nothing went out.
C4_Witness ==
  /\ ServerDone
  /\ req.impl = "processUploadedFile"
  /\ req.file # NoFile
  /\ req.file.mimetype = "image/png"
  /\ req.file.size = 12 * MiB
  /\ res.response.success = FALSE
  /\ res.response.errors = <<PayloadTooLarge(10)>>
  /\ outbound = <<>>

\* C10: for a size above the configured maximum the validation outcome
\* includes the too-large violation, whatever the MIME type is.
C10_TooLargeAlwaysReported ==
  (/\ ServerDone
   /\ req.impl = "disk"
   /\ req.file # NoFile
   /\ req.file.size > 10 * MiB) =>
    "PayloadTooLarge" \in Kinds(res.response.errors)

\* C19: POST /upload-image answers 400 with success:false whenever the file
\* fails validation (no file, unsupported type, size above the limit), and
\* 500 only when the store operation fails.
C19_UploadImageStatusCodes ==
  (ServerDone /\ req.impl \in {"memory", "disk"}) =>
    /\ (req.file = NoFile \/ ValidationRejects) =>
          (res.response.status = 400 /\ ~res.response.success)
    /\ res.response.status = 500 =>
          (req.file # NoFile /\ ~ValidationRejects /\ ~req.answerOk)

----------------------------------------------------------------------------
(* Specification SpecValidate: the validators applied to files.            *)
(* req = [variant, files, isArray]; res = [errors, threw]: one violation   *)
(* list per file, or threw when the call raised an exception.              *)

Variants == {"upload", "local", "utils", "cu"}

ValidatorFile(m, n) ==
  [originalname |-> OriginalName(1), path |-> StagedPath(1),
   mimetype |-> m, size |-> n, storeOk |-> TRUE]

\* file objects of multer, and file objects without a mimetype or a size
ValidatorFiles ==
  ServerFiles \cup
  {ValidatorFile(Undefined, 1), ValidatorFile(Undefined, UndefinedSize),
   ValidatorFile("image/png", UndefinedSize)}

OddFiles == {NoFile, ValidatorFile("image/png", 1), ValidatorFile(Undefined, 1)}

OddFileLists == UNION {[1 .. n -> OddFiles] : n \in 0 .. MaxFiles}

Validated(variant, files, isArray, threw, errors) ==
  /\ req' = [variant |-> variant, files |-> files, isArray |-> isArray]
  /\ res' = [threw |-> threw, errors |-> IF threw THEN <<>> ELSE errors]
  /\ pc' = "validated"
  /\ UNCHANGED <<db, clock, disk, outbound, remote>>

\* validateUploadedFile of one of the four modules on one file
ValidateOne ==
  /\ pc \in {"idle", "validated"}
  /\ \E variant \in Variants, file \in ValidatorFiles :
       Validated(variant, <<file>>, TRUE, validateThrows(variant, file),
                 <<validateUploadedFile(variant, file)>>)

\* validateFiles of utils/cloudinaryUtils.js or of middleware/uploadImage.js
\* on the files of a request, or on an argument that is not an array
ValidateMany ==
  /\ pc \in {"idle", "validated"}
  /\ \/ \E files \in RouteFiles(MaxFiles) :
          Validated("cu", files, TRUE, FALSE, validateFiles_cu(files))
     \/ \E files \in OddFileLists :
          Validated("local", files, TRUE,
                    \E i \in DOMAIN files : validateThrows("local", files[i]),
                    validateFiles_local(files))
     \/ \E variant \in {"cu", "local"} :
          Validated(variant, <<>>, FALSE, FALSE, validateFiles_notArray)

NextValidate == ValidateOne \/ ValidateMany

SpecValidate == Init /\ [][NextValidate]_vars

ValidatorReturned == pc = "validated" /\ ~res.threw /\ req.isArray

\* C9: a file of an allowed MIME type whose size is at most the maximum
\* its upload path declares gets an empty violation list.
C9_ValidWithinDeclaredMaximum ==
  ValidatorReturned =>
    \A i \in DOMAIN req.files :
      (/\ req.files[i] # NoFile
       /\ req.files[i].mimetype \in allowedTypes
       /\ req.files[i].size # UndefinedSize
       /\ req.files[i].size <= declaredMaxMB(req.variant) * MiB) =>
        res.errors[i] = <<>>

\* C11: in every validator variant the MIME type is matched against the
\* allow-set without regard to letter case: a file is reported as of an
\* unsupported type exactly when its lower-cased type is not allowed.
C11_TypeMatchIgnoresCase ==
  ValidatorReturned =>
    \A i \in DOMAIN req.files :
      (req.files[i] # NoFile /\ req.files[i].mimetype # Undefined) =>
        (UnsupportedMediaType \in {res.errors[i][k] : k \in DOMAIN res.errors[i]}
           <=> toLowerCase(req.files[i].mimetype) \notin allowedTypes)

\* C12: the validator never throws: every call returns a list of violations.
C12_ValidatorNeverThrows ==
  pc = "validated" => ~res.threw

----------------------------------------------------------------------------
(* Specification SpecDelete: uploads that leave assets on the remote       *)
(* service, then single deletions (function and HTTP route) or one         *)
(* batchDeleteImages run.                                                  *)
(* Single deletions: res = [log], one entry per deletion.                  *)
(* Batch: req = [publicIds]; res = [results, next, inflight].              *)

DeleteIds == {StagedPath(1), StagedPath(2)}

IdLists == UNION {[1 .. n -> DeleteIds \cup {NoId}] : n \in 0 .. MaxFiles}

\* an earlier upload was accepted: its asset is on the remote service
RemoteUpload ==
  /\ pc = "idle"
  /\ UNCHANGED <<db, clock>>
  /\ \E id \in DeleteIds \ remote : remote' = remote \cup {id}
  /\ UNCHANGED <<disk, outbound, pc, req, res>>

Log == IF pc = "delete" THEN res.log ELSE <<>>

Logged(entry, r, calls) ==
  /\ Len(Log) < MaxCalls
  /\ res' = [log |-> Append(Log, entry)]
  /\ req' = [single |-> TRUE]
  /\ UNCHANGED <<db, clock>>
  /\ remote' = r
  /\ outbound' = outbound \o calls
  /\ pc' = "delete"
  /\ UNCHANGED disk

\* a call of deleteImageFromCloudinary
DeleteOne ==
  /\ pc \in {"idle", "delete"}
  /\ \E publicId \in DeleteIds \cup {NoId}, reachable \in BOOLEAN :
       LET d == deleteImageFromCloudinary(publicId, reachable, remote)
       IN Logged([by |-> "function", publicId |-> publicId,
                  existed |-> publicId \in remote, reachable |-> reachable,
                  success |-> d.success, code |-> d.code, status |-> 0],
                 d.remote, d.calls)

\* a request DELETE /api/projects/delete-image/:publicId
DeleteRoute ==
  /\ pc \in {"idle", "delete"}
  /\ \E publicId \in DeleteIds, reachable \in BOOLEAN :
       LET d == deleteImageRoute(publicId, reachable, remote)
       IN Logged([by |-> "route", publicId |-> publicId,
                  existed |-> publicId \in remote, reachable |-> reachable,
                  success |-> d.response.success,
                  code |-> IF d.response.status = 200 THEN "ok" ELSE "not ok",
                  status |-> d.response.status],
                 d.remote, d.calls)

\* batchDeleteImages(publicIds) is called
BatchDeleteBegin ==
  /\ pc = "idle"
  /\ \E publicIds \in IdLists : req' = [publicIds |-> publicIds]
  /\ res' = [results |-> <<>>, next |-> 1, inflight |-> {}]
  /\ pc' = "batchDelete"
  /\ UNCHANGED <<db, clock, disk, outbound, remote>>

\* the loop reaches the next public id and calls deleteImageFromCloudinary:
\* an empty id returns at once, any other id sends the destroy call
DeleteStart ==
  /\ pc = "batchDelete"
  /\ res.next <= Len(req.publicIds)
  /\ deleteMayStart(res.inflight)
  /\ res' = [res EXCEPT !.next = @ + 1, !.inflight = @ \cup {res.next}]
  /\ outbound' = outbound \o
                   deleteImageFromCloudinary(req.publicIds[res.next], TRUE,
                                             remote).calls
  /\ UNCHANGED <<db, clock, disk, pc, remote, req>>

\* a deletion under way completes and its result is pushed
DeleteComplete ==
  /\ pc = "batchDelete"
  /\ \E k \in res.inflight, reachable \in BOOLEAN :
       LET d == deleteImageFromCloudinary(req.publicIds[k], reachable, remote)
       IN /\ UNCHANGED <<db, clock>>
          /\ remote' = d.remote
          /\ res' = [res EXCEPT
                       !.results = Append(@, [publicId |-> d.publicId,
                                              success |-> d.success,
                                              code |-> d.code]),
                       !.inflight = @ \ {k}]
  /\ UNCHANGED <<disk, outbound, pc, req>>

\* batchDeleteImages returns its results
BatchDeleteReturn ==
  /\ pc = "batchDelete"
  /\ res.next > Len(req.publicIds)
  /\ res.inflight = {}
  /\ pc' = "deleted"
  /\ UNCHANGED <<db, clock, disk, outbound, remote, req, res>>

NextDelete ==
  \/ RemoteUpload
  \/ DeleteOne
  \/ DeleteRoute
  \/ BatchDeleteBegin
  \/ DeleteStart
  \/ DeleteComplete
  \/ BatchDeleteReturn

SpecDelete == Init /\ [][NextDelete]_vars

\* C13: the deletion of a public id that the remote service does not hold
\* returns success:false with a code other than "ok" (status 404 on the
\* route when the service answered); of two deletions of one id in a row
\* the second reports non-success.
C13_DeleteOfMissingIdReportsNonSuccess ==
  pc = "delete" =>
    /\ \A k \in DOMAIN res.log :
         ~res.log[k].existed =>
           /\ ~res.log[k].success
           /\ res.log[k].code # "ok"
           /\ (res.log[k].by = "route" /\ res.log[k].reachable) =>
                res.log[k].status = 404
    /\ \A k \in DOMAIN res.log :
         (k > 1 /\ res.log[k - 1].publicId = res.log[k].publicId
                /\ res.log[k - 1].success) =>
           ~res.log[k].success

\* C13 witness: one stored id was deleted twice in a row, by the function
\* and then by the route: success first, then non-success with status 404.
C13_Witness ==
  /\ pc = "delete"
  /\ Len(res.log) >= 2
  /\ res.log[1].publicId = res.log[2].publicId
  /\ res.log[1].by = "function"
  /\ res.log[1].success
  /\ res.log[2].by = "route"
  /\ ~res.log[2].success
  /\ res.log[2].status = 404

\* the destroy calls of the first n public ids, in list order
RECURSIVE CallsOf(_, _)
CallsOf(publicIds, n) ==
  IF n = 0 THEN <<>>
  ELSE CallsOf(publicIds, n - 1) \o
         (IF publicIds[n] = NoId THEN <<>> ELSE <<DestroyCall(publicIds[n])>>)

\* C14: batchDeleteImages has at most one deletion under way, sends the
\* destroy calls in list order, goes on after a failed deletion, and returns
\* one result per public id in input order.
C14_BatchDeleteSequentialInOrder ==
  pc \in {"batchDelete", "deleted"} =>
    /\ Cardinality(res.inflight) <= 1
    /\ outbound = CallsOf(req.publicIds, res.next - 1)
    /\ Len(res.results) <= Len(req.publicIds)
    /\ \A k \in DOMAIN res.results :
         res.results[k].publicId = req.publicIds[k]
    /\ pc = "deleted" =>
         /\ Len(res.results) = Len(req.publicIds)
         /\ outbound = CallsOf(req.publicIds, Len(req.publicIds))

\* C14 witness: a batch of three ids has returned; the first deletion
\* failed, the second succeeded, and all three have a result.
C14_Witness ==
  /\ pc = "deleted"
  /\ Len(req.publicIds) = 3
  /\ Len(res.results) = 3
  /\ ~res.results[1].success
  /\ res.results[2].success
  /\ req.publicIds[1] # req.publicIds[2]
  /\ Len(outbound) = 3

----------------------------------------------------------------------------
(* Specification SpecLocal: the local asset store.  Files are staged, put  *)
(* by batchProcessImages of middleware/uploadImage.js, and deleted by      *)
(* deleteImageFile.                                                        *)
(* req = [staged, done]: indexes of the files staged and of those put;     *)
(* res = [stored, deleted]: filenames that put returned with success, and  *)
(* filenames that were passed to deleteImageFile since their put.          *)

LocalFile(i, sharpOk) ==
  [originalname |-> OriginalName(i), path |-> StagedPath(i),
   mimetype |-> "image/png", size |-> 1, storeOk |-> sharpOk]

LocalStarted == pc = "local"

LocalReq == IF LocalStarted THEN req ELSE [staged |-> {}, done |-> {}]

LocalRes == IF LocalStarted THEN res ELSE [stored |-> {}, deleted |-> {}]

\* multer stages an upload
LocalStage ==
  /\ pc \in {"idle", "local"}
  /\ \E i \in (1 .. MaxFiles) \ LocalReq.staged :
       /\ disk' = disk \cup {StagedPath(i)}
       /\ req' = [LocalReq EXCEPT !.staged = @ \cup {i}]
  /\ res' = LocalRes
  /\ pc' = "local"
  /\ UNCHANGED <<db, clock, outbound, remote>>

\* batchProcessImages handles one staged file
LocalPut ==
  /\ LocalStarted
  /\ \E i \in req.staged \ req.done, sharpOk \in BOOLEAN, thumbOk \in BOOLEAN :
       LET it == batchProcessImages_local(i, LocalFile(i, sharpOk), thumbOk, disk)
       IN /\ disk' = it.disk
          /\ req' = [req EXCEPT !.done = @ \cup {i}]
          /\ res' = [res EXCEPT
                       !.stored = IF it.result.success
                                    THEN @ \cup {it.result.filename} ELSE @,
                       !.deleted = @ \ {ImagePath(i)}]
  /\ UNCHANGED <<db, clock, outbound, pc, remote>>

\* deleteImageFile(filename)
LocalDelete ==
  /\ LocalStarted
  /\ \E filename \in {ImagePath(i) : i \in 1 .. MaxFiles} \cup {NoId} :
       /\ disk' = deleteImageFile_local(filename, disk)
       /\ res' = [res EXCEPT !.deleted = @ \cup {filename}]
  /\ UNCHANGED <<db, clock, outbound, pc, remote, req>>

NextLocal == LocalStage \/ LocalPut \/ LocalDelete

SpecLocal == Init /\ [][NextLocal]_vars

\* C15: after a successful local put of a file and the delete of the
\* filename that put returned, neither the image nor its thumbnail exists.
C15_LocalPutThenDeleteLeavesNothing ==
  LocalStarted =>
    \A filename \in res.stored \cap res.deleted :
      /\ filename \notin disk
      /\ thumbnailOf(filename) \notin disk

\* C15 witness: a put created an image and its thumbnail, the returned
\* filename was deleted, while another stored image is still on disk.
C15_Witness ==
  /\ LocalStarted
  /\ ImagePath(1) \in res.stored \cap res.deleted
  /\ ImagePath(2) \in res.stored \ res.deleted
  /\ ThumbnailPath(2) \in disk
  /\ ImagePath(1) \notin disk
  /\ ThumbnailPath(1) \notin disk

----------------------------------------------------------------------------
(* Specification SpecSweep: cleanupOldImages of the local store over the   *)
(* entries of the asset root.                                              *)
(* req = [variant, entries]; res = [deletedCount, errors, idx, aborted].   *)

EntryKinds ==
  {[kind |-> "file", expired |-> TRUE, statOk |-> TRUE, unlinkOk |-> TRUE],
   [kind |-> "file", expired |-> FALSE, statOk |-> TRUE, unlinkOk |-> TRUE],
   [kind |-> "file", expired |-> TRUE, statOk |-> FALSE, unlinkOk |-> TRUE],
   [kind |-> "file", expired |-> TRUE, statOk |-> TRUE, unlinkOk |-> FALSE],
   [kind |-> "dir", expired |-> TRUE, statOk |-> TRUE, unlinkOk |-> FALSE],
   [kind |-> "thumbnails", expired |-> FALSE, statOk |-> TRUE, unlinkOk |-> FALSE]}

Entry(i, k) ==
  [name |-> ImagePath(i), kind |-> k.kind, expired |-> k.expired,
   statOk |-> k.statOk, unlinkOk |-> k.unlinkOk]

Directories ==
  UNION { { [i \in 1 .. n |-> Entry(i, k[i])] : k \in [1 .. n -> EntryKinds] }
          : n \in 0 .. MaxFiles }

\* cleanupOldImages is called; fs.readdir yields the entries of the root
SweepBegin ==
  /\ pc = "idle"
  /\ \E variant \in {"local", "utils"}, entries \in Directories :
       /\ req' = [variant |-> variant, entries |-> entries]
       /\ disk' = {entries[i].name : i \in DOMAIN entries}
  /\ res' = [deletedCount |-> 0, errors |-> <<>>, idx |-> 1, aborted |-> FALSE]
  /\ pc' = "sweep"
  /\ UNCHANGED <<db, clock, outbound, remote>>

Sweeping(variant) ==
  /\ pc = "sweep"
  /\ req.variant = variant
  /\ ~res.aborted
  /\ res.idx <= Len(req.entries)

SweepStep(w) ==
  /\ disk' = w.disk
  /\ res' = [deletedCount |-> w.deletedCount, errors |-> w.errors,
             idx |-> res.idx + 1, aborted |-> w.aborted]
  /\ UNCHANGED <<db, clock, outbound, pc, remote, req>>

SweepLocal ==
  /\ Sweeping("local")
  /\ SweepStep(cleanupOldImages_local(req.entries[res.idx], disk,
                                      res.deletedCount, res.errors))

SweepUtils ==
  /\ Sweeping("utils")
  /\ SweepStep(cleanupOldImages_utils(req.entries[res.idx], disk,
                                      res.deletedCount, res.errors))

\* cleanupOldImages returns: after the last entry, or from the catch block
SweepReturn ==
  /\ pc = "sweep"
  /\ res.aborted \/ res.idx > Len(req.entries)
  /\ pc' = "swept"
  /\ UNCHANGED <<db, clock, disk, outbound, remote, req, res>>

NextSweep == SweepBegin \/ SweepLocal \/ SweepUtils \/ SweepReturn

SpecSweep == Init /\ [][NextSweep]_vars

\* entries on which the sweep meets a failure
FailingEntries ==
  {i \in DOMAIN req.entries :
     \/ req.entries[i].kind = "dir"
     \/ ~req.entries[i].statOk
     \/ (req.entries[i].kind = "file" /\ req.entries[i].expired
           /\ ~req.entries[i].unlinkOk)}

\* C16: when the sweep has returned, every expired file without a failure
\* of its own has been deleted, every failing entry is in the errors list,
\* and deletedCount is the number of files removed.
C16_SweepCollectsFailures ==
  pc = "swept" =>
    /\ \A i \in DOMAIN req.entries :
         (/\ req.entries[i].kind = "file"
          /\ req.entries[i].expired
          /\ i \notin FailingEntries) => req.entries[i].name \notin disk
    /\ Len(res.errors) = Cardinality(FailingEntries)
    /\ res.deletedCount =
         Cardinality({i \in DOMAIN req.entries : req.entries[i].name \notin disk})

----------------------------------------------------------------------------
(* Specification SpecRemoteSweep: uploads fill a folder of the remote      *)
(* service, then cleanupOldImages of middleware/upload.js runs once.       *)
(* req = [folder]; res = [deletedCount, errors].                           *)

FolderStarted == pc = "folder"

Folder == IF FolderStarted THEN req.folder ELSE <<>>

\* an accepted upload adds an asset to the folder; by the time of the
\* sweep it is older than the cutoff or not
FolderUpload ==
  /\ pc \in {"idle", "folder"}
  /\ Len(Folder) < max_results + 3
  /\ \E expired \in BOOLEAN :
       LET id == StagedPath(Len(Folder) + 1)
       IN /\ req' = [folder |-> Append(Folder, [id |-> id, expired |-> expired])]
          /\ UNCHANGED <<db, clock>>
          /\ remote' = remote \cup {id}
  /\ res' = None
  /\ pc' = "folder"
  /\ UNCHANGED <<disk, outbound>>

\* cleanupOldImages(daysOld, folder)
RemoteSweep ==
  /\ pc \in {"idle", "folder"}
  /\ \E listOk \in BOOLEAN, deleteOk \in BOOLEAN :
       LET c == cleanupOldImages_upload(Folder, listOk, deleteOk, remote)
       IN /\ res' = [deletedCount |-> c.deletedCount, errors |-> c.errors]
          /\ UNCHANGED <<db, clock>>
          /\ remote' = c.remote
  /\ req' = [folder |-> Folder]
  /\ pc' = "remoteSwept"
  /\ UNCHANGED <<disk, outbound>>

NextRemoteSweep == FolderUpload \/ RemoteSweep

SpecRemoteSweep == Init /\ [][NextRemoteSweep]_vars

\* C17: the sweep never returns an error-free result while the folder
\* holds more assets than one page and an expired asset beyond the first
\* page was left unexamined.
C17_SweepNeverDropsPagesSilently ==
  (/\ pc = "remoteSwept"
   /\ Len(req.folder) > max_results
   /\ \E i \in DOMAIN req.folder :
        i > max_results /\ req.folder[i].expired /\ req.folder[i].id \in remote) =>
    res.errors # <<>>

----------------------------------------------------------------------------
(* Specification SpecStartup: the process starts with some environment,    *)
(* then serves upload requests.                                            *)
(* req = [variant, env, file]; res = [listening, verified, response].      *)

Envs == [cloud_name : BOOLEAN, api_key : BOOLEAN, api_secret : BOOLEAN]

StartupFiles ==
  {NoFile} \cup
  {ValidatorFile(m, n) : m \in {"image/png", "application/pdf"},
                         n \in {1, 7 * MiB, 12 * MiB}}

\* node server.js
Startup ==
  /\ pc = "idle"
  /\ \E variant \in {"server", "part_006"}, env \in Envs :
       /\ req' = [variant |-> variant, env |-> env, file |-> NoFile]
       /\ res' = [listening |-> startup(variant, env).listening,
                  verified |-> startup(variant, env).verified,
                  response |-> None]
       /\ pc' = IF startup(variant, env).listening THEN "listening"
                ELSE "exited"
  /\ UNCHANGED <<db, clock, disk, outbound, remote>>

\* POST /api/projects/upload-image is served; the remote service accepts
\* an upload only from a client configured with the three credentials
ServeUpload ==
  /\ pc \in {"listening", "served"}
  /\ Len(outbound) < MaxCalls
  /\ \E file \in StartupFiles, answerOk \in BOOLEAN :
       LET m == multer_server(file, "disk", disk)
           o == uploadRoute_disk(file, answerOk /\ verifyCloudinaryConfig(req.env),
                                 m.disk)
       IN /\ req' = [req EXCEPT !.file = file]
          /\ IF m.error # ""
               THEN /\ res' = [res EXCEPT !.response =
                                 globalErrorHandler_disk(m.error)]
                    /\ disk' = m.disk
                    /\ UNCHANGED <<db, clock, outbound, remote>>
               ELSE /\ res' = [res EXCEPT !.response = o.response]
                    /\ disk' = o.disk
                    /\ outbound' = outbound \o o.calls
                    /\ UNCHANGED <<db, clock>>
                    /\ remote' = remote \cup
                         Stored(o.calls # <<>> /\ o.response.success, o.calls)
  /\ pc' = "served"

NextStartup == Startup \/ ServeUpload

SpecStartup == Init /\ [][NextStartup]_vars

\* C18: a process started with one of the three remote credentials missing
\* does not come to accept requests, and never serves an upload request.
C18_IncompleteCredentialsFailStartup ==
  pc \in {"listening", "served"} => verifyCloudinaryConfig(req.env)

----------------------------------------------------------------------------
(* Specification SpecGenerate: public ids generated for original           *)
(* filenames.  req = [variant, originalname]; res = [base].                *)

Filenames == UNION {[1 .. n -> Chars] : n \in 1 .. MaxLen}

Generated(variant, originalname, base) ==
  /\ req' = [variant |-> variant, originalname |-> originalname]
  /\ res' = [base |-> base]
  /\ pc' = "generated"
  /\ UNCHANGED <<db, clock, disk, outbound, remote>>

GenerateUpload ==
  /\ pc = "idle"
  /\ \E originalname \in Filenames :
       Generated("upload", originalname,
                 generateUniqueFilename_upload(originalname))

GenerateServer ==
  /\ pc = "idle"
  /\ \E originalname \in Filenames :
       Generated("server", originalname, cleanBasename_server(originalname))

NextGenerate == GenerateUpload \/ GenerateServer

SpecGenerate == Init /\ [][NextGenerate]_vars

\* the characters of [A-Za-z0-9_-]
IsSafeChar(c) == c \in {"a", "p", "P", "7", "_", "-"}

\* C20: the base-name part of a generated identifier holds only characters
\* of [A-Za-z0-9_-]: it is the original base name with every other
\* character removed.
C20_BaseNameSanitized ==
  pc = "generated" =>
    /\ \A i \in DOMAIN res.base : IsSafeChar(res.base[i])
    /\ res.base = SelectSeq(basename(req.originalname, extname(req.originalname)),
                            IsSafeChar)

----------------------------------------------------------------------------
(* Specification SpecToken: the timestamp and the random token of the      *)
(* identifiers.  req = [variant, now, random]; res = the identifier parts. *)

RandomValues == UNION {[1 .. n -> {"i", "z"}] : n \in 0 .. MaxDigits}

Timestamps == {0, 1}

Tokened(variant, now, random, id) ==
  /\ req' = [variant |-> variant, now |-> now, random |-> random]
  /\ res' = id
  /\ pc' = "tokened"
  /\ UNCHANGED <<db, clock, disk, outbound, remote>>

TokenUpload ==
  /\ pc = "idle"
  /\ \E now \in Timestamps, random \in RandomValues :
       Tokened("upload", now, random, uniqueSuffix_upload(now, random))

TokenServer ==
  /\ pc = "idle"
  /\ \E now \in Timestamps, random \in RandomValues :
       Tokened("server", now, random, uniqueSuffix_server(now, random))

NextToken == TokenUpload \/ TokenServer

SpecToken == Init /\ [][NextToken]_vars

\* C21: a generated identifier holds the millisecond timestamp followed by
\* a random token of at least 4 base-36 characters, whatever value the
\* random source returns.
C21_TokenAtLeastFourChars ==
  pc = "tokened" =>
    /\ res.timestamp = req.now
    /\ Len(res.randomString) >= 4

----------------------------------------------------------------------------
(* Specification SpecTry: a batch run whose iterations can throw.          *)
(* req = [impl, files]; res = [results, idx].                              *)

TryFile(i, mimetype, storeOk) ==
  [originalname |-> OriginalName(i), path |-> StagedPath(i),
   mimetype |-> mimetype, size |-> 1, storeOk |-> storeOk]

\* the entries of a batch: a good file, one the store fails on, one without
\* a mimetype, and a missing file object
TryEntries(i) ==
  {TryFile(i, "image/png", TRUE), TryFile(i, "image/png", FALSE),
   TryFile(i, Undefined, TRUE), NoFile}

TryBatches ==
  UNION { {f \in [1 .. n -> UNION {TryEntries(i) : i \in 1 .. n}] :
             \A i \in 1 .. n : f[i] \in TryEntries(i)}
          : n \in 0 .. MaxFiles }

TryBegin ==
  /\ pc = "idle"
  /\ \E impl \in {"upload", "local"}, files \in TryBatches :
       /\ req' = [impl |-> impl, files |-> files]
       /\ disk' = {files[i].path : i \in {k \in DOMAIN files : files[k] # NoFile}}
  /\ res' = [results |-> <<>>, idx |-> 1]
  /\ pc' = "batch"
  /\ UNCHANGED <<db, clock, outbound, remote>>

TryPushed(t) ==
  /\ res' = IF t.raised THEN res
            ELSE [res EXCEPT !.results = Append(@, t.it.result), !.idx = @ + 1]
  /\ pc' = IF t.raised THEN "raised" ELSE pc
  /\ disk' = t.it.disk
  /\ outbound' = outbound \o t.it.calls
  /\ UNCHANGED <<db, clock>>
  /\ remote' = remote \cup Stored(t.it.calls # <<>> /\ t.it.result.success,
                                  t.it.calls)
  /\ UNCHANGED req

TryIterUpload ==
  /\ InLoop("upload")
  /\ TryPushed(tryIteration_upload(req.files[res.idx], disk))

TryIterLocal ==
  /\ InLoop("local")
  /\ \E thumbOk \in BOOLEAN, statOk \in BOOLEAN :
       TryPushed(tryIteration_local(res.idx, req.files[res.idx], thumbOk,
                                    statOk, disk))

TryReturn ==
  /\ pc = "batch"
  /\ res.idx > Len(req.files)
  /\ pc' = "returned"
  /\ UNCHANGED <<db, clock, disk, outbound, remote, req, res>>

NextTry == TryBegin \/ TryIterUpload \/ TryIterLocal \/ TryReturn

SpecTry == Init /\ [][NextTry]_vars

\* C22: whatever is thrown while one file of a batch is stored is caught
\* and becomes the failure result of that file; batchProcessImages never
\* raises to its caller and goes on with the next file.
C22_BatchNeverRaises ==
  /\ pc # "raised"
  /\ pc = "returned" => Len(res.results) = Len(req.files)

----------------------------------------------------------------------------
(* Specification SpecSettle: the remote puts as asynchronous calls.        *)
(* req = [op, name, path]; res = [answer, settlement].                     *)
(* pc: "idle" -> "pending" -> "answered" -> "settled" -> "idle".           *)

NoAnswer == "none"

PutCalled(op, name, path) ==
  /\ req' = [op |-> op, name |-> name, path |-> path]
  /\ res' = [answer |-> NoAnswer, settlement |-> Settlement("pending", FALSE)]
  /\ pc' = "pending"
  /\ UNCHANGED <<db, clock, remote>>

\* uploadToCloudinary(filePath): awaits cloudinary.uploader.upload
CallUpload ==
  /\ pc = "idle"
  /\ Len(outbound) < MaxCalls
  /\ \E i \in 1 .. MaxFiles, staged \in BOOLEAN :
       /\ disk' = IF staged THEN disk \cup {StagedPath(i)} ELSE disk
       /\ outbound' = Append(outbound, StagedPath(i))
       /\ PutCalled("upload", StagedPath(i), StagedPath(i))

\* uploadStreamToCloudinary(options): opens the stream and returns the promise
CallStream ==
  /\ pc = "idle"
  /\ Len(outbound) < MaxCalls
  /\ \E i \in 1 .. MaxFiles : PutCalled("stream", OriginalName(i), NoPath)
  /\ UNCHANGED <<disk, outbound>>

\* processFileBuffer(buffer, originalname): opens the stream and ends it
CallBuffer ==
  /\ pc = "idle"
  /\ Len(outbound) < MaxCalls
  /\ \E i \in 1 .. MaxFiles :
       /\ outbound' = Append(outbound, OriginalName(i))
       /\ PutCalled("buffer", OriginalName(i), NoPath)
  /\ UNCHANGED disk

\* the remote service answers the call, or the call times out
RemoteResponds ==
  /\ pc = "pending"
  /\ res.answer = NoAnswer
  /\ \E answer \in answersTo(req.op) : res' = [res EXCEPT !.answer = answer]
  /\ pc' = "answered"
  /\ UNCHANGED <<db, clock, disk, outbound, remote, req>>

Settled(settlement) ==
  /\ res' = [res EXCEPT !.settlement = settlement]
  /\ pc' = IF settlement.settled = "pending" THEN "dropped" ELSE "settled"
  /\ UNCHANGED <<outbound, req>>

\* the continuation of uploadToCloudinary: unlink, then the result
SettleUpload ==
  /\ pc = "answered"
  /\ req.op = "upload"
  /\ LET r == uploadToCloudinary_upload(req.path, res.answer = "ok", disk)
     IN /\ disk' = r.disk
        /\ UNCHANGED <<db, clock>>
        /\ remote' = remote \cup Stored(r.success, r.calls)
        /\ Settled(Settlement("resolved", r.success))

SettleStream ==
  /\ pc = "answered"
  /\ req.op = "stream"
  /\ Settled(uploadStream_callback(res.answer))
  /\ UNCHANGED <<db, clock, disk, remote>>

SettleBuffer ==
  /\ pc = "answered"
  /\ req.op = "buffer"
  /\ LET s == processFileBuffer_callback(res.answer)
     IN /\ Settled(s)
        /\ UNCHANGED <<db, clock>>
        /\ remote' = remote \cup Stored(s.success, <<req.name>>)
  /\ UNCHANGED disk

\* the caller has its result; the next put can be called
PutDone ==
  /\ pc = "settled"
  /\ pc' = "idle"
  /\ req' = None
  /\ res' = None
  /\ UNCHANGED <<db, clock, disk, outbound, remote>>

NextSettle ==
  \/ CallUpload
  \/ CallStream
  \/ CallBuffer
  \/ RemoteResponds
  \/ SettleUpload
  \/ SettleStream
  \/ SettleBuffer
  \/ PutDone

SpecSettle == Init /\ [][NextSettle]_vars

\* the remote side eventually answers or times out, and the event loop
\* eventually runs a continuation that is ready
SpecSettleFair ==
  /\ SpecSettle
  /\ WF_vars(RemoteResponds)
  /\ WF_vars(SettleUpload \/ SettleStream \/ SettleBuffer)

\* C23: every remote put that was called eventually settles with a success
\* or a failure result, given that the remote side eventually answers or
\* times out.
C23_EveryPutSettles ==
  (pc = "pending") ~> (pc = "settled" /\ res.settlement.settled # "pending")

\* C23 witness: a buffer put whose call timed out has settled with a
\* failure result.
C23_Witness_TimedOutPutSettled ==
  /\ pc = "settled"
  /\ req.op = "buffer"
  /\ res.answer = "timeout"
  /\ res.settlement = Settlement("resolved", FALSE)

\* C24: whenever the local store has reported success for a file, its
\* primary file and its thumbnail file are both on disk (until the file is
\* deleted).
C24_SuccessMeansBothFilesOnDisk ==
  LocalStarted =>
    \A filename \in res.stored \ res.deleted :
      /\ filename \in disk
      /\ thumbnailOf(filename) \in disk

----------------------------------------------------------------------------
(* Specification SpecBootstrap: concurrent admin-bootstrap requests.       *)
(* pc, req and res are functions of the request: pc[p] is "idle",          *)
(* "checked" (the existence check has answered) or "responded";            *)
(* req[p] = [via, email, existingAdmin]; res[p] = [status].                *)

Reqs == 1 .. MaxReqs

Emails == {Email(i) : i \in 1 .. MaxUsers}

InitBootstrap ==
  /\ db = [users |-> {}, projects |-> {}]
  /\ clock = 0
  /\ disk = {}
  /\ outbound = <<>>
  /\ remote = {}
  /\ pc = [p \in Reqs |-> "idle"]
  /\ req = [p \in Reqs |-> None]
  /\ res = [p \in Reqs |-> None]

BootstrapChecked(p, via, email, existingAdmin) ==
  /\ req' = [req EXCEPT ![p] = [via |-> via, email |-> email,
                                existingAdmin |-> existingAdmin]]
  /\ pc' = [pc EXCEPT ![p] = "checked"]
  /\ UNCHANGED <<db, clock, disk, outbound, remote, res>>

\* createInitialAdmin: await User.findOne({ role: 'Admin' })
EndpointCheck(p) ==
  /\ pc[p] = "idle"
  /\ \E email \in Emails :
       BootstrapChecked(p, "endpoint", email, findOneAdmin(db.users))

\* User.createAdmin: await this.findOne({ $or: ... })
StaticCheck(p) ==
  /\ pc[p] = "idle"
  /\ \E email \in Emails :
       BootstrapChecked(p, "static", email,
                        findOneEmailOrAdmin(db.users, email))

\* the rest of either operation: the early return, or the create
BootstrapCreate(p) ==
  /\ pc[p] = "checked"
  /\ LET r == insertAdmin(db.users, req[p].existingAdmin, req[p].email)
     IN /\ db' = [db EXCEPT !.users = r.users]
        /\ res' = [res EXCEPT ![p] = [status |-> r.status]]
  /\ pc' = [pc EXCEPT ![p] = "responded"]
  /\ UNCHANGED <<clock, disk, outbound, remote, req>>

\* the connection serves its next request
BootstrapAgain(p) ==
  /\ pc[p] = "responded"
  /\ pc' = [pc EXCEPT ![p] = "idle"]
  /\ req' = [req EXCEPT ![p] = None]
  /\ res' = [res EXCEPT ![p] = None]
  /\ UNCHANGED <<db, clock, disk, outbound, remote>>

NextBootstrap ==
  \E p \in Reqs :
    \/ EndpointCheck(p)
    \/ StaticCheck(p)
    \/ BootstrapCreate(p)
    \/ BootstrapAgain(p)

SpecBootstrap == InitBootstrap /\ [][NextBootstrap]_vars

\* C25: after any sequence of admin-bootstrap calls, concurrent ones
\* included, at most one user has the role Admin.
C25_AtMostOneAdmin ==
  Cardinality({u \in db.users : u.role = "Admin"}) <= 1

----------------------------------------------------------------------------
(* Specification SpecLogin: concurrent logins on one account.              *)
(* pc[p] is "idle", "loaded" (the document is read, the password compare   *)
(* is under way) or "responded"; req[p] = [via, email, isMatch, user,      *)
(* wasLocked]; res[p] = [status, token].                                   *)

Account == UserDoc(Email(1), "Admin")

InitLogin ==
  /\ db = [users |-> {Account}, projects |-> {}]
  /\ clock = 0
  /\ disk = {}
  /\ outbound = <<>>
  /\ remote = {}
  /\ pc = [p \in Reqs |-> "idle"]
  /\ req = [p \in Reqs |-> None]
  /\ res = [p \in Reqs |-> None]

\* findOne({ email }): the stored document, or None
findOneByEmail(users, email) ==
  IF \E u \in users : u.email = email
    THEN CHOOSE u \in users : u.email = email
    ELSE None

Loaded(p, via, email, isMatch) ==
  LET user == findOneByEmail(db.users, email)
  IN /\ req' = [req EXCEPT ![p] =
                  [via |-> via, email |-> email, isMatch |-> isMatch,
                   user |-> user,
                   wasLocked |-> user # None /\ isLocked(user, clock)]]
     /\ pc' = [pc EXCEPT ![p] = "loaded"]
     /\ UNCHANGED <<db, clock, disk, outbound, remote, res>>

LoginsMayStart == \A u \in db.users : u.loginAttempts < MaxCount

\* User.findByCredentials(email, password): await this.findOne(...)
CredentialsLoad(p) ==
  /\ pc[p] = "idle"
  /\ LoginsMayStart
  /\ \E email \in Emails, isMatch \in BOOLEAN :
       Loaded(p, "static", email, isMatch)

\* login: await User.findOne({ email })
EndpointLoad(p) ==
  /\ pc[p] = "idle"
  /\ LoginsMayStart
  /\ \E email \in Emails, isMatch \in BOOLEAN :
       Loaded(p, "endpoint", email, isMatch)

LoginResponded(p, r) ==
  /\ db' = [db EXCEPT !.users = updateUser(@, req[p].email, r.update)]
  /\ res' = [res EXCEPT ![p] = [status |-> r.status, token |-> r.token]]
  /\ pc' = [pc EXCEPT ![p] = "responded"]
  /\ UNCHANGED <<clock, disk, outbound, remote, req>>

CredentialsFinish(p) ==
  /\ pc[p] = "loaded"
  /\ req[p].via = "static"
  /\ LoginResponded(p, findByCredentials(req[p].user, req[p].wasLocked,
                                    req[p].isMatch, clock))

EndpointFinish(p) ==
  /\ pc[p] = "loaded"
  /\ req[p].via = "endpoint"
  /\ LoginResponded(p, login(req[p].user, req[p].isMatch))

LoginAgain(p) ==
  /\ pc[p] = "responded"
  /\ pc' = [pc EXCEPT ![p] = "idle"]
  /\ req' = [req EXCEPT ![p] = None]
  /\ res' = [res EXCEPT ![p] = None]
  /\ UNCHANGED <<db, clock, disk, outbound, remote>>

Tick ==
  /\ clock < MaxTime
  /\ clock' = clock + 1
  /\ UNCHANGED <<db, disk, outbound, pc, remote, req, res>>

NextLogin ==
  \/ Tick
  \/ \E p \in Reqs :
       \/ CredentialsLoad(p)
       \/ EndpointLoad(p)
       \/ CredentialsFinish(p)
       \/ EndpointFinish(p)
       \/ LoginAgain(p)

SpecLogin == InitLogin /\ [][NextLogin]_vars

\* C26: once 5 failed logins have been counted on an account, its lock is
\* set, whatever the interleaving of the failed attempts.
C26_FiveFailuresLock ==
  \A u \in db.users : u.loginAttempts >= maxAttempts => u.lockUntil # NullDate

\* C27: while an account is locked no login for it succeeds and no token is
\* issued, through findByCredentials and through the login endpoint.
C27_NoTokenWhileLocked ==
  [][\A p \in Reqs :
       (pc[p] = "loaded" /\ pc'[p] = "responded" /\ res'[p].token)
         => ~isLocked(findOneByEmail(db.users, req[p].email), clock)]_vars

----------------------------------------------------------------------------
(* Specification SpecProject: createProject, updateProject and             *)
(* toggleFeatured on the projects collection.                              *)
(* req = [op, id, body]; res = [status]; pc = "answered" after a request.  *)

FeaturedInputs == {Undefined, "'true'", "true", "false"}

ProjectBodies ==
  [title : 0 .. 2, startDate : 0 .. MaxDate, endDate : 0 .. MaxDate,
   featured : FeaturedInputs]

ProjectIds == 1 .. MaxProjects

ProjectAnswered(op, id, body, status) ==
  /\ req' = [op |-> op, id |-> id, body |-> body]
  /\ res' = [status |-> status]
  /\ pc' = "answered"
  /\ UNCHANGED <<clock, disk, outbound, remote>>

CreateProject ==
  \E body \in ProjectBodies :
    LET id == Cardinality(db.projects) + 1
        status == createProject(validatedBody(body, FALSE)).status
    IN /\ id <= MaxProjects
       /\ db' = IF status = 201
                  THEN [db EXCEPT !.projects = @ \cup {projectData(id, body)}]
                  ELSE db
       /\ ProjectAnswered("create", id, body, status)

UpdateProject ==
  \E id \in ProjectIds, body \in ProjectBodies :
    LET existingProject == findById(db.projects, id)
        status == updateProject(validatedBody(body, existingProject # None)).status
    IN /\ db' = IF status = 200
                  THEN [db EXCEPT !.projects =
                          replaceProject(@, applyUpdateData(existingProject, body))]
                  ELSE db
       /\ ProjectAnswered("update", id, body, status)

ToggleFeatured ==
  \E id \in ProjectIds, featured \in BOOLEAN :
    LET project == findById(db.projects, id)
    IN /\ db' = IF project # None
                  THEN [db EXCEPT !.projects =
                          replaceProject(@, applyToggle(project, featured))]
                  ELSE db
       /\ ProjectAnswered("toggle", id,
                          [title |-> 0, startDate |-> 0, endDate |-> 0,
                           featured |-> IF featured THEN "true" ELSE "false"],
                          IF project # None THEN 200 ELSE 404)

NextProject == CreateProject \/ UpdateProject \/ ToggleFeatured

SpecProject == Init /\ [][NextProject]_vars

\* C28: every persisted project has its startDate strictly before its
\* endDate, after any sequence of creates and updates.
C28_StartBeforeEnd ==
  \A d \in db.projects : d.startDate < d.endDate

\* C29: an update leaves the fields that its body does not mention as they
\* were; an update that does not mention featured keeps featured.
C29_UnmentionedFieldsKept ==
  [][\A id \in ProjectIds :
       (/\ req'.op = "update"
        /\ req'.id = id
        /\ res'.status = 200)
       => LET before == findById(db.projects, id)
              after == findById(db'.projects, id)
          IN /\ req'.body.title = 0 => after.title = before.title
             /\ req'.body.startDate = 0 => after.startDate = before.startDate
             /\ req'.body.endDate = 0 => after.endDate = before.endDate
             /\ req'.body.featured = Undefined
                  => after.featured = before.featured]_vars

----------------------------------------------------------------------------
(* Specification SpecAdminOnly: GET /dashboard behind adminonly.           *)
(* req = [user, body]; res = [status]; pc is "refused" when the middleware *)
(* answered, "next" when it called next(), "handled" after the handler.    *)

UserObjects == {[role |-> r] : r \in RoleUniverse} \cup {None}

AdminOnly ==
  /\ pc = "idle"
  /\ \E user \in UserObjects, bodyUser \in UserObjects :
       LET d == adminonly(user, bodyUser)
       IN /\ req' = [user |-> user, body |-> [user |-> bodyUser]]
          /\ res' = [status |-> d.status]
          /\ pc' = IF d.next THEN "next" ELSE "refused"
  /\ UNCHANGED <<db, clock, disk, outbound, remote>>

\* getDashboardStats answers
DashboardStats ==
  /\ pc = "next"
  /\ res' = [status |-> 200]
  /\ pc' = "handled"
  /\ UNCHANGED <<db, clock, disk, outbound, remote, req>>

NextAdminOnly == AdminOnly \/ DashboardStats

SpecAdminOnly == Init /\ [][NextAdminOnly]_vars

\* C30: adminonly calls next() only when req.user has the admin role; a
\* role in the request body neither grants access nor changes the
\* decision; every other request ends with 401, 403 or 500.
C30_NextOnlyForAdminPrincipal ==
  /\ pc \in {"next", "handled"} =>
       /\ req.user # None
       /\ req.user.role # Undefined
       /\ roleToLowerCase(req.user.role) = "admin"
  /\ pc = "refused" => res.status \in {401, 403, 500}

====
